---- MODULE Spec2Model ----
(***************************************************************************)
(* LIRIA: the book ingestion script scripts/ingestBooks.js.                *)
(*                                                                         *)
(* The script asks OpenLibrary and Google Books for every query of         *)
(* SEARCH_QUERIES, normalizes the records, keeps the titled records whose   *)
(* id was not seen before, and writes the list to data/books.json.         *)
(***************************************************************************)
EXTENDS Integers, Sequences, FiniteSets, TLC

(***************************************************************************)
(* Bounds of the model and program constants.                              *)
(***************************************************************************)
\* Number of entries of SEARCH_QUERIES the model runs (the script lists 6).
NumQueries == 2

\* Longest docs/items array a provider response carries in the model.
MaxDocs == 2

\* const LIMIT_PER_QUERY_PER_SOURCE = 10;
LIMIT_PER_QUERY_PER_SOURCE == 10

\* the page size the providers serve at most: Math.min(limit, 20) in searchBooks
ProviderPageMax == 20

(***************************************************************************)
(* JavaScript values.  A scalar is a record [t, v]: t is the type, v the   *)
(* text of a string.  undefined and null are values of their own, distinct *)
(* from every string, the empty string included.                           *)
(***************************************************************************)
UNDEF == [t |-> "undefined", v |-> ""]

NULL == [t |-> "null", v |-> ""]

Str(s) == [t |-> "string", v |-> s]

Arr(items) == [t |-> "array", items |-> items]

\* what reading a property of null or undefined throws
TypeError == [t |-> "TypeError", v |-> ""]

\* x is null or undefined: the values the ?? and ?. operators step over.
Nullish(x) == x.t \in {"undefined", "null"}

\* a ?? b
Coalesce(a, b) == IF Nullish(a) THEN b ELSE a

\* `${x}` for a scalar x
TemplateText(x) ==
    CASE x.t = "undefined" -> "undefined"
      [] x.t = "null" -> "null"
      [] OTHER -> x.v

\* arr?.[0]
FirstOf(arr) ==
    IF Nullish(arr) THEN UNDEF
    ELSE IF Len(arr.items) = 0 THEN UNDEF
    ELSE Str(arr.items[1])

\* x ?? "" for a string-valued field, as a plain string
StringOr(x, d) == IF Nullish(x) THEN d ELSE x.v

\* x ?? [] for an array-valued field, as a plain sequence
ItemsOr(x, d) == IF Nullish(x) THEN d ELSE x.items

\* no slice: the whole array goes on
SliceNone(s, n) == s

\* arr.slice(0, n)
Slice(s, n) == SubSeq(s, 1, IF Len(s) < n THEN Len(s) ELSE n)

(***************************************************************************)
(* Normalizer.                                                             *)
(***************************************************************************)
\* id of an OpenLibrary record, the fallback chain evaluated in another order
\* (edition key tried after the ISBN list).
OpenLibraryIdIsbnFirst(doc) ==
    "openlibrary:" \o
        TemplateText(Coalesce(Coalesce(Coalesce(doc.key, FirstOf(doc.isbn)),
                                   doc.cover_edition_key), doc.title))

\* id of an OpenLibrary record under the tag of the other provider
OpenLibraryIdGoogleTag(doc) ==
    "google:" \o
        TemplateText(Coalesce(Coalesce(Coalesce(doc.key, doc.cover_edition_key),
                                   FirstOf(doc.isbn)), doc.title))

\* `openlibrary:${doc.key ?? doc.cover_edition_key ?? doc.isbn?.[0] ?? doc.title}`
OpenLibraryId(doc) ==
    "openlibrary:" \o
        TemplateText(Coalesce(Coalesce(Coalesce(doc.key, doc.cover_edition_key),
                                   FirstOf(doc.isbn)), doc.title))

\* doc.key, doc.title, ... are read from doc itself: a doc that is null throws
normalizeOpenLibraryDoc(doc) ==
    IF Nullish(doc) THEN TypeError ELSE
    [ id |-> OpenLibraryId(doc),
      source |-> "openlibrary",
      title |-> StringOr(doc.title, ""),
      authors |-> ItemsOr(doc.author_name, <<>>),
      description |-> "",
      categories |-> ItemsOr(doc.subject, <<>>),
      identifiers |-> [ openlibrary_key |-> doc.key,
                        isbn |-> ItemsOr(doc.isbn, <<>>) ],
      publishedYear |-> Coalesce(doc.first_publish_year, NULL) ]

\* item.volumeInfo ?? {} : every field of the empty object reads undefined
EmptyInfo ==
    [ t |-> "object", title |-> UNDEF, authors |-> UNDEF, description |-> UNDEF,
      categories |-> UNDEF, industryIdentifiers |-> UNDEF, publishedDate |-> UNDEF ]

\* a normalizer that reads item.volumeInfo without the ?? {} default
normalizeGoogleVolumeNoInfoDefault(item) ==
    IF Nullish(item) \/ Nullish(item.volumeInfo) THEN TypeError ELSE
    LET info == item.volumeInfo IN
    [ id |-> "google:" \o TemplateText(item.id),
      source |-> "google_books",
      title |-> StringOr(info.title, ""),
      authors |-> ItemsOr(info.authors, <<>>),
      description |-> StringOr(info.description, ""),
      categories |-> ItemsOr(info.categories, <<>>),
      identifiers |-> [ google_id |-> item.id,
                        industryIdentifiers |-> ItemsOr(info.industryIdentifiers, <<>>) ],
      publishedYear |-> Coalesce(info.publishedDate, NULL) ]

\* item.volumeInfo and item.id are read from item: an item that is null throws
normalizeGoogleVolume(item) ==
    IF Nullish(item) THEN TypeError ELSE
    LET info == Coalesce(item.volumeInfo, EmptyInfo) IN
    [ id |-> "google:" \o TemplateText(item.id),
      source |-> "google_books",
      title |-> StringOr(info.title, ""),
      authors |-> ItemsOr(info.authors, <<>>),
      description |-> StringOr(info.description, ""),
      categories |-> ItemsOr(info.categories, <<>>),
      identifiers |-> [ google_id |-> item.id,
                        industryIdentifiers |-> ItemsOr(info.industryIdentifiers, <<>>) ],
      publishedYear |-> Coalesce(info.publishedDate, NULL) ]

(***************************************************************************)
(* Provider records the model draws responses from.                        *)
(***************************************************************************)
OLDoc(key, cek, isbn, title, author) ==
    [ t |-> "object", key |-> key, cover_edition_key |-> cek, isbn |-> isbn, title |-> title,
      author_name |-> author, subject |-> UNDEF, first_publish_year |-> UNDEF ]

\* a work with its native key
olDune == OLDoc(Str("/works/OL1W"), UNDEF, UNDEF, Str("Dune"), Arr(<<"Frank Herbert">>))

\* a record without title
olUntitled == OLDoc(Str("/works/OL3W"), UNDEF, UNDEF, UNDEF, UNDEF)

\* a record of an earlier run
olUlysses == OLDoc(Str("/works/OL0W"), UNDEF, UNDEF, Str("Ulysses"), UNDEF)

OLDocs == {olDune, olUntitled}

VolumeInfo(title, authors, description) ==
    [ t |-> "object", title |-> title, authors |-> authors, description |-> description,
      categories |-> UNDEF, industryIdentifiers |-> UNDEF, publishedDate |-> UNDEF ]

\* a volume without description
gDune == [ t |-> "object", id |-> Str("g1"),
           volumeInfo |-> VolumeInfo(Str("Dune"), Arr(<<"Frank Herbert">>), UNDEF) ]

\* the same volume id, with a description
gDuneRich == [ t |-> "object", id |-> Str("g1"),
               volumeInfo |-> VolumeInfo(Str("Dune"), Arr(<<"Frank Herbert">>), Str("X")) ]

\* an item without volumeInfo
gBare == [ t |-> "object", id |-> Str("g2"), volumeInfo |-> UNDEF ]

GoogleItems == {gDune, gDuneRich, gBare}

Providers == {"openlibrary", "google_books"}

Queries == 1..NumQueries

\* one HTTP request: <<index of the query in SEARCH_QUERIES, provider>>
Requests == Queries \X Providers

RawRecords(p) == IF p = "openlibrary" THEN OLDocs ELSE GoogleItems

Lists(D) == UNION { [1..n -> D] : n \in 0..MaxDocs }

\* What a request can end with: fetch throws, a non-2xx status, a body that is
\* not JSON, or a JSON object whose docs/items field is absent or an array.
Failures ==
    { [kind |-> k, list |-> UNDEF] : k \in {"network_error", "http_error", "bad_json"} }

Responses(p) ==
    Failures \cup {[kind |-> "ok", list |-> UNDEF]}
             \cup { [kind |-> "ok", list |-> Arr(l)] : l \in Lists(RawRecords(p)) }

(***************************************************************************)
(* Ingestion per query.                                                    *)
(***************************************************************************)
Pending == [tag |-> "pending", books |-> <<>>]

Rejected == [tag |-> "rejected", books |-> <<>>]

Fulfilled(books) == [tag |-> "fulfilled", books |-> books]

\* docs.map(normalize...) throws when the normalizer throws for an entry
Threw(books) == \E i \in 1..Len(books) : books[i] = TypeError

\* fetchJson: throws unless the request succeeds with an ok status and a JSON body
fetchJson(resp) == IF resp.kind = "ok" THEN [ok |-> TRUE, list |-> resp.list]
                   ELSE [ok |-> FALSE, list |-> UNDEF]

ingestFromOpenLibrary(resp) ==
    LET json == fetchJson(resp)
        docs == Slice(ItemsOr(json.list, <<>>), LIMIT_PER_QUERY_PER_SOURCE)
        books == [i \in 1..Len(docs) |-> normalizeOpenLibraryDoc(docs[i])]
    IN  IF ~json.ok \/ Threw(books) THEN Rejected ELSE Fulfilled(books)

ingestFromGoogleBooks(resp) ==
    LET json == fetchJson(resp)
        items == Slice(ItemsOr(json.list, <<>>), LIMIT_PER_QUERY_PER_SOURCE)
        books == [i \in 1..Len(items) |-> normalizeGoogleVolume(items[i])]
    IN  IF ~json.ok \/ Threw(books) THEN Rejected ELSE Fulfilled(books)

Ingest(p, resp) ==
    IF p = "openlibrary" THEN ingestFromOpenLibrary(resp) ELSE ingestFromGoogleBooks(resp)

\* Promise.all([ol, gb]): rejected as soon as one is, fulfilled once both are
PromiseAll(ol, gb) ==
    IF ol.tag = "rejected" \/ gb.tag = "rejected" THEN "rejected"
    ELSE IF ol.tag = "fulfilled" /\ gb.tag = "fulfilled" THEN "fulfilled"
    ELSE "pending"

\* a spread that puts the Google Books records first
SpreadGoogleFirst(openLibBooks, googleBooks) == googleBooks \o openLibBooks

\* [...openLibBooks, ...googleBooks]
Spread(openLibBooks, googleBooks) == openLibBooks \o googleBooks

(***************************************************************************)
(* Deduplicator: the body of the loop over [...openLibBooks, ...googleBooks] *)
(***************************************************************************)
Ids(books) == { books[i].id : i \in 1..Len(books) }

\* the loop body without the title test
KeepsBookUntitled(seen, book) == book.id \notin seen

\* the loop body without the seen-id test
KeepsBookSeen(seen, book) == book.title # ""

\* if (!book.title) continue; if (seenIds.has(book.id)) continue;
KeepsBook(seen, book) == book.title # "" /\ book.id \notin seen

\* a deduplicator that lets the later record of an id take the place of the first
AccumulateLastWins(all, seen, book) ==
    IF book.title = "" THEN all
    ELSE IF book.id \in seen
         THEN [i \in 1..Len(all) |-> IF all[i].id = book.id THEN book ELSE all[i]]
         ELSE Append(all, book)

\* a deduplicator that also drops a record whose title an accepted record has
AccumulateByTitle(all, seen, book) ==
    IF KeepsBook(seen, book) /\ \A i \in 1..Len(all) : all[i].title # book.title
    THEN Append(all, book) ELSE all

\* a deduplicator keyed on title and authors instead of id
AccumulateByTitleAuthor(all, seen, book) ==
    IF /\ book.title # ""
       /\ \A i \in 1..Len(all) :
              ~(all[i].title = book.title /\ all[i].authors = book.authors)
    THEN Append(all, book) ELSE all

\* allBooks.unshift(book): a kept book goes to the front of the list
AccumulatePrepend(all, seen, book) ==
    IF KeepsBook(seen, book) THEN <<book>> \o all ELSE all

\* allBooks.push(book) for a kept book
Accumulate(all, seen, book) == IF KeepsBook(seen, book) THEN Append(all, book) ELSE all

(***************************************************************************)
(* Sink.                                                                   *)
(***************************************************************************)
\* JSON.stringify of an object leaves out the properties whose value is undefined
JsonObject(o) == [k \in {n \in DOMAIN o : o[n].t # "undefined"} |-> o[k]]

JsonBook(b) ==
    [ id |-> b.id, source |-> b.source, title |-> b.title, authors |-> b.authors,
      description |-> b.description, categories |-> b.categories,
      identifiers |->
          IF b.source = "openlibrary"
          THEN JsonObject([openlibrary_key |-> b.identifiers.openlibrary_key,
                           isbn |-> Arr(b.identifiers.isbn)])
          ELSE JsonObject([google_id |-> b.identifiers.google_id,
                           industryIdentifiers |-> Arr(b.identifiers.industryIdentifiers)]),
      publishedYear |-> b.publishedYear ]

\* JSON.stringify(allBooks, null, 2): the text of the array, record by record
Stringify(books) == [i \in 1..Len(books) |-> JsonBook(books[i])]

\* The file at OUTPUT_FILE: absent, holding a whole text, or cut short.
NoFile == [kind |-> "absent", text |-> <<>>]

Complete(text) == [kind |-> "complete", text |-> text]

Truncated(text) == [kind |-> "truncated", text |-> text]

\* the output of an earlier run
OldFile == Complete(Stringify(<<normalizeOpenLibraryDoc(olUlysses)>>))

\* a write that adds the text to what the file holds
WrittenFileAppend(old, text) == Complete(old.text \o text)

\* writeFileSync opens with flag "w": the text takes the place of the content
WrittenFile(old, text) == Complete(text)

\* what a failing writeFileSync can leave: the file untouched (the open failed)
\* or truncated and cut short (a write failed after the open)
FailedWrites(old, text) ==
    {old} \cup { Truncated(SubSeq(text, 1, k)) : k \in 0..Len(text) }

(***************************************************************************)
(* The database schema: four tables under row level security.              *)
(***************************************************************************)
Users == {"alice", "bob"}

\* auth.uid() of a request without a signed-in user, and every other SQL NULL
SqlNull == "NULL"

\* a = b in SQL: true only when neither side is NULL
SqlEq(a, b) == a # SqlNull /\ b # SqlNull /\ a = b

Tables == {"library_entries", "wishlist_entries", "conversations", "messages"}

\* the tables with a user_id column
OwnedTables == {"library_entries", "wishlist_entries", "conversations"}

\* the rows a table can hold in the model: primary key, owner or conversation,
\* and what stands for the other columns
RowsOf(t) ==
    CASE t = "library_entries" ->
             { [id |-> "l1", user_id |-> u, data |-> d] :
                   u \in Users, d \in {"rated 0", "rated 5"} }
                 \cup { [id |-> "l2", user_id |-> u, data |-> "rated 0"] : u \in Users }
      [] t = "wishlist_entries" ->
             { [id |-> "w1", user_id |-> u, data |-> "wish"] : u \in Users }
      [] t = "conversations" ->
             { [id |-> "c1", user_id |-> u] : u \in Users }
      [] OTHER ->
             { [id |-> "m1", conversation_id |-> "c1", data |-> d] : d \in {"hello", "bye"} }

\* the primary keys of a table
RowIds(t) == { r.id : r \in RowsOf(t) }

\* ALTER TABLE ... ENABLE ROW LEVEL SECURITY
RlsEnabled == {"library_entries", "wishlist_entries", "conversations", "messages"}

\* CREATE POLICY ... ON table FOR cmd USING (using) WITH CHECK (check):
\* "owner" is auth.uid() = user_id, "conversation owner" the EXISTS over
\* conversations, "none" a clause the statement does not have
Policies ==
    { [table |-> "library_entries", cmd |-> "SELECT", using |-> "owner", check |-> "none"],
      [table |-> "library_entries", cmd |-> "INSERT", using |-> "none", check |-> "owner"],
      [table |-> "library_entries", cmd |-> "UPDATE", using |-> "owner", check |-> "none"],
      [table |-> "library_entries", cmd |-> "DELETE", using |-> "owner", check |-> "none"],
      [table |-> "wishlist_entries", cmd |-> "SELECT", using |-> "owner", check |-> "none"],
      [table |-> "wishlist_entries", cmd |-> "INSERT", using |-> "none", check |-> "owner"],
      [table |-> "wishlist_entries", cmd |-> "DELETE", using |-> "owner", check |-> "none"],
      [table |-> "conversations", cmd |-> "SELECT", using |-> "owner", check |-> "none"],
      [table |-> "conversations", cmd |-> "INSERT", using |-> "none", check |-> "owner"],
      [table |-> "messages", cmd |-> "SELECT", using |-> "conversation owner",
       check |-> "none"],
      [table |-> "messages", cmd |-> "INSERT", using |-> "none",
       check |-> "conversation owner"] }

PoliciesFor(t, cmd) == { p \in Policies : p.table = t /\ p.cmd = cmd }

\* the conversations the sub-select of the messages policies sees: it runs as
\* the same user, under the SELECT policy of conversations
ConversationsSeenBy(uid, d) ==
    { c \in d["conversations"] :
          \E p \in PoliciesFor("conversations", "SELECT") :
              p.using = "owner" /\ SqlEq(uid, c.user_id) }

\* the value of a policy expression for a row
Holds(expr, uid, row, d) ==
    CASE expr = "owner" -> SqlEq(uid, row.user_id)
      [] expr = "conversation owner" ->
             \E c \in ConversationsSeenBy(uid, d) :
                 SqlEq(c.id, row.conversation_id) /\ SqlEq(c.user_id, uid)
      [] OTHER -> FALSE

\* a table without row level security: every row passes
UsingPassesRlsOff(uid, t, cmd, row, d) == TRUE

\* an existing row passes for cmd when a policy for cmd has a USING clause that
\* holds; with row level security enabled and no policy, no row passes
UsingPasses(uid, t, cmd, row, d) ==
    t \in RlsEnabled => \E p \in PoliciesFor(t, cmd) : Holds(p.using, uid, row, d)

\* a new row passes for cmd when a policy for cmd has a WITH CHECK clause that
\* holds; an UPDATE policy without WITH CHECK checks its USING clause
CheckPasses(uid, t, cmd, row, d) ==
    t \in RlsEnabled =>
        \E p \in PoliciesFor(t, cmd) :
            Holds(IF p.check = "none" THEN p.using ELSE p.check, uid, row, d)

\* the rows a statement reaches: SELECT sees the rows passing the SELECT
\* policies, UPDATE and DELETE those passing their own policies too
Reachable(uid, t, cmd, d) ==
    { r \in d[t] : UsingPasses(uid, t, "SELECT", r, d) /\ UsingPasses(uid, t, cmd, r, d) }

\* REFERENCES conversations(id): checked without regard to row level security
ForeignKeyHolds(t, row, d) ==
    t = "messages" => \E c \in d["conversations"] : c.id = row.conversation_id

EmptyDb == [t \in Tables |-> {}]

NoStatement == [uid |-> SqlNull, cmd |-> "none", table |-> "none", result |-> "none"]

Statement(uid, cmd, t, result) == [uid |-> uid, cmd |-> cmd, table |-> t, result |-> result]

(***************************************************************************)
(* The chat page: the titles detected in the latest answer.  A text is the *)
(* sequence of its characters.                                             *)
(***************************************************************************)
\* the character U+2022
Bullet == "bullet"

NewLine == "\n"

\* the characters trim() and \s take for white space
WhiteSpace == {" ", "\t", "\r"}

\* the characters of a string of the model
Chars(s) == [i \in 1..Len(s) |-> SubSeq(s, i, i)]

\* .slice(0, 5)
MaxCandidates == 5

\* Number of messages the user sends in the model.
MaxExchanges == 2

\* text.split("\n"): the stretches between the line feeds, ends included
Split(text) ==
    LET feeds == { i \in 1..Len(text) : text[i] = NewLine }
        n == Cardinality(feeds)
        FeedAt(p) == IF p = 0 THEN 0
                     ELSE IF p = n + 1 THEN Len(text) + 1
                     ELSE CHOOSE i \in feeds : Cardinality({ j \in feeds : j <= i }) = p
    IN  [p \in 1..(n + 1) |-> SubSeq(text, FeedAt(p - 1) + 1, FeedAt(p) - 1)]

\* line.trim()
Trim(line) ==
    LET inked == { i \in 1..Len(line) : line[i] \notin WhiteSpace } IN
    IF inked = {} THEN <<>>
    ELSE SubSeq(line, CHOOSE i \in inked : \A j \in inked : i <= j,
                      CHOOSE i \in inked : \A j \in inked : i >= j)

\* line.length > 0
NotBlank(line) == Len(line) > 0

\* line.startsWith("-") || line.startsWith("•")
IsListItem(line) == Len(line) > 0 /\ line[1] \in {"-", Bullet}

\* line.replace(/^[-•]\s*/, "")
StripMarker(line) ==
    IF ~IsListItem(line) THEN line
    ELSE LET inked == { i \in 2..Len(line) : line[i] \notin WhiteSpace } IN
         IF inked = {} THEN <<>>
         ELSE SubSeq(line, CHOOSE i \in inked : \A j \in inked : i <= j, Len(line))

extractBookCandidates(text) ==
    IF text = <<>> THEN <<>>
    ELSE LET lines == Split(text)
             trimmed == [i \in 1..Len(lines) |-> Trim(lines[i])]
             items == SelectSeq(SelectSeq(trimmed, NotBlank), IsListItem)
         IN  [i \in 1..Len(items) |-> StripMarker(items[i])]

Message(role, content) == [role |-> role, content |-> content]

\* the message the page starts with
Welcome ==
    Message("assistant",
            Chars("Hi, I'm LIRIA. Tell me what kind of book you're looking for."))

\* no assistant message: find() returns undefined
NoMessage == Message("none", <<>>)

\* the latest message, whoever wrote it
lastAssistantMessageAnyRole(msgs) ==
    IF Len(msgs) = 0 THEN NoMessage ELSE msgs[Len(msgs)]

\* [...messages].reverse().find((m) => m.role === "assistant")
lastAssistantMessage(msgs) ==
    LET at == { i \in 1..Len(msgs) : msgs[i].role = "assistant" } IN
    IF at = {} THEN NoMessage ELSE msgs[CHOOSE i \in at : \A j \in at : i >= j]

\* const candidates = lastAssistantMessage ? extract(...).slice(0, 5) : []
Candidates(msgs) ==
    IF lastAssistantMessage(msgs) = NoMessage THEN <<>>
    ELSE Slice(extractBookCandidates(lastAssistantMessage(msgs).content), MaxCandidates)

RECURSIVE Join(_)
\* the text whose lines are the given ones
Join(lines) ==
    IF Len(lines) = 0 THEN <<>>
    ELSE IF Len(lines) = 1 THEN lines[1]
    ELSE lines[1] \o << NewLine >> \o Join(Tail(lines))

\* lines a reply is made of: a double dash item, an indented bullet item
\* with white space around the title and a carriage return, a line with the
\* dash at its end, and an indented dash with nothing after it
LineSamples ==
    { Chars("--A"),
      << " ", Bullet >> \o Chars(" B\r"),
      Chars("C-"),
      Chars(" - ") }

\* an answer can have one line more than the page shows candidates
MaxLines == MaxCandidates + 1

\* what the user typed: a list item with white space around it, or blanks
Inputs == { Chars(" - mine "), Chars("  ") }

\* data.reply || "I couldn't parse a reply from the server."
ReplyText(reply) ==
    IF reply = <<>> THEN Chars("I couldn't parse a reply from the server.")
    ELSE reply

\* the content of the aiMessage of the catch block
ServerIssue == Chars("Sorry, I had a server issue. Please try again later.")

\* what is typed when sendMessage is called: the inputs above and one more
SendInputs == Inputs \cup { Chars("more ") }

\* no call of sendMessage yet
NoSend == [input |-> <<>>, accepted |-> FALSE]

\* short replies: one with a list item, one without, and none
ShortReplies == { Chars("Try:\n- Old"), Chars("No idea."), <<>> }

\* the messages of a role
OfRole(msgs, role) == { i \in 1..Len(msgs) : msgs[i].role = role }

(***************************************************************************)
(* The App component: the library and its copy in localStorage.            *)
(***************************************************************************)
Num(n) == [t |-> "number", v |-> n]

\* what JSON.parse throws
SyntaxError == [t |-> "SyntaxError", v |-> ""]

\* the values an if, a && or a || takes for true
Truthy(x) ==
    CASE x.t = "string" -> x.v # ""
      [] x.t = "number" -> x.v # 0
      [] x.t \in {"array", "object"} -> TRUE
      [] OTHER -> FALSE

\* a || b
Or(a, b) == IF Truthy(a) THEN a ELSE b

UpperCaseLetters == "ABCDEFGHIJKLMNOPQRSTUVWXYZ"

LowerCaseLetters == "abcdefghijklmnopqrstuvwxyz"

RECURSIVE Text(_)
\* the string a sequence of characters spells
Text(chars) == IF Len(chars) = 0 THEN "" ELSE chars[1] \o Text(Tail(chars))

\* a character, lower-cased
LowerChar(c) ==
    LET at == { i \in 1..Len(UpperCaseLetters) : SubSeq(UpperCaseLetters, i, i) = c } IN
    IF at = {} THEN c
    ELSE LET i == CHOOSE j \in at : TRUE IN SubSeq(LowerCaseLetters, i, i)

\* s.toLowerCase()
toLowerCase(s) == Text([i \in 1..Len(s) |-> LowerChar(SubSeq(s, i, i))])

\* s.trim()
trim(s) == Text(Trim(Chars(s)))

\* const buildKey = (source, rawId, title) => ...
buildKey(source, rawId, title) ==
    IF Truthy(source) /\ Truthy(rawId)
    THEN TemplateText(source) \o "::" \o TemplateText(rawId)
    ELSE IF Truthy(title) THEN toLowerCase(title.v) ELSE ""

\* buildKey(b.source, b.externalId, b.title) of a library entry
KeyOf(item) == buildKey(item.source, item.externalId, item.title)

\* typeof x === "number" ? x : d
NumberOr(x, d) == IF x.t = "number" THEN x ELSE d

\* Array.isArray(x) ? x : []
ArrayOr(x) == IF x.t = "array" THEN x ELSE Arr(<<>>)

\* the payload handleAddBook builds from the incoming book
Payload(book, title) ==
    [ title |-> Str(title),
      rating |-> NumberOr(book.rating, Num(0)),
      comment |-> IF Nullish(book.comment) THEN Str("")
                  ELSE Or(Str(trim(book.comment.v)), Str("")),
      source |-> Or(book.source, NULL),
      externalId |-> Or(book.rawId, NULL),
      authors |-> ArrayOr(book.authors),
      description |-> Or(book.description, Str("")),
      categories |-> ArrayOr(book.categories),
      apiRating |-> NumberOr(book.apiRating, NULL),
      apiRatingsCount |-> NumberOr(book.apiRatingsCount, NULL),
      coverUrl |-> Or(book.coverUrl, NULL) ]

\* !book?.title: a test that lets a blank title through
UntitledNoTrim(book) ==
    \/ Nullish(book)
    \/ Nullish(book.title)
    \/ book.title.v = ""

\* !book?.title?.trim()
Untitled(book) ==
    \/ Nullish(book)
    \/ Nullish(book.title)
    \/ trim(book.title.v) = ""

\* prev.findIndex((b) => buildKey(b.source, b.externalId, b.title) === key)
FindIndex(prev, key) ==
    LET at == { i \in 1..Len(prev) : KeyOf(prev[i]) = key } IN
    IF at = {} THEN -1 ELSE CHOOSE i \in at : \A j \in at : i <= j

\* an updater that spreads the entry it finds under the payload's own fields,
\* keeping its rating and comment when the book brings none
AddBookUpdaterKeep(prev, book) ==
    LET title == trim(book.title.v)
        key == buildKey(book.source, book.rawId, Str(title))
        existingIndex == FindIndex(prev, key)
        payload == Payload(book, title)
        old == prev[existingIndex]
    IN  IF existingIndex # -1
        THEN [prev EXCEPT ![existingIndex] =
                 [ payload EXCEPT
                     !.rating = IF book.rating.t = "number" THEN payload.rating
                                ELSE old.rating,
                     !.comment = IF Nullish(book.comment) THEN old.comment
                                 ELSE payload.comment ]]
        ELSE Append(prev, payload)

\* the updater handleAddBook hands to setLibrary
AddBookUpdater(prev, book) ==
    LET title == trim(book.title.v)
        key == buildKey(book.source, book.rawId, Str(title))
        existingIndex == FindIndex(prev, key)
        payload == Payload(book, title)
    IN  IF existingIndex # -1 THEN [prev EXCEPT ![existingIndex] = payload]
        ELSE Append(prev, payload)

\* handleAddBook: the library after the call
handleAddBook(prev, book) ==
    IF Untitled(book) THEN prev ELSE AddBookUpdater(prev, book)

\* a rating update that finds its entries by title alone
handleUpdateRatingByTitle(prev, bookInfo, newRating) ==
    [ i \in 1..Len(prev) |->
        IF toLowerCase(prev[i].title.v) = buildKey(NULL, NULL, bookInfo.title)
        THEN [prev[i] EXCEPT !.rating = newRating]
        ELSE prev[i] ]

\* handleUpdateRating: the library after the call
handleUpdateRating(prev, bookInfo, newRating) ==
    [ i \in 1..Len(prev) |->
        IF KeyOf(prev[i]) = buildKey(bookInfo.source, bookInfo.rawId, bookInfo.title)
        THEN [prev[i] EXCEPT !.rating = newRating]
        ELSE prev[i] ]

\* { ...book, rawId: book.externalId }
WithRawId(book) ==
    [ k \in DOMAIN book \cup {"rawId"} |->
        IF k = "rawId" THEN book.externalId ELSE book[k] ]

\* star buttons numbered from 2
StarsOffByOne == { Num(value + 1) : value \in 1..5 }

\* [1, 2, 3, 4, 5].map((value) => ...): the values of the star buttons
Stars == { Num(value) : value \in 1..5 }

(***************************************************************************)
(* The search page: the client-side search of Google Books and OpenLibrary.*)
(***************************************************************************)
\* o.k for an object o: undefined when o has no such property
Get(o, k) == IF k \in DOMAIN o THEN o[k] ELSE UNDEF

\* {}
EmptyObject == [t |-> "object"]

RECURSIVE JoinWith(_, _)
\* items.join(sep)
JoinWith(items, sep) ==
    IF Len(items) = 0 THEN ""
    ELSE IF Len(items) = 1 THEN items[1]
    ELSE items[1] \o sep \o JoinWith(Tail(items), sep)

\* const normalizeGoogle = (item) => ...
normalizeGoogle(item) ==
    IF Nullish(item) THEN TypeError ELSE
    LET info == Coalesce(Get(item, "volumeInfo"), EmptyObject)
        imageLinks == Get(info, "imageLinks")
    IN  [ t |-> "object",
          id |-> Str("google:" \o TemplateText(Get(item, "id"))),
          source |-> Str("Google Books"),
          rawId |-> Get(item, "id"),
          title |-> Coalesce(Get(info, "title"), Str("")),
          authors |-> Coalesce(Get(info, "authors"), Arr(<<>>)),
          description |-> Coalesce(Get(info, "description"), Str("")),
          categories |-> Coalesce(Get(info, "categories"), Arr(<<>>)),
          coverUrl |-> IF Nullish(imageLinks) THEN UNDEF
                       ELSE Or(Get(imageLinks, "thumbnail"),
                               Get(imageLinks, "smallThumbnail")) ]

\* the description normalizeOpenLibrary makes up
OpenLibraryDescription(doc, title, authors, categories) ==
    LET firstSentence == Get(doc, "first_sentence")
        d1 == IF firstSentence.t = "string" THEN firstSentence.v ELSE ""
        d2 == IF firstSentence.t = "array" /\ Len(firstSentence.items) > 0
              THEN firstSentence.items[1] ELSE d1
        d3 == IF (d2 = "" \/ Len(d2) < 20) /\ Len(categories) > 0
              THEN "Topics: " \o JoinWith(categories, ", ") ELSE d2
    IN  IF d3 = "" THEN trim(title \o " " \o JoinWith(Slice(authors, 2), ", "))
        ELSE d3

\* const normalizeOpenLibrary = (doc) => ...
normalizeOpenLibrary(doc) ==
    IF Nullish(doc) THEN TypeError ELSE
    LET title == Coalesce(Get(doc, "title"), Str(""))
        authors == Coalesce(Get(doc, "author_name"), Arr(<<>>))
        subjects == Coalesce(Get(doc, "subject"), Arr(<<>>))
        categories == Slice(subjects.items, 5)
    IN  [ t |-> "object",
          id |-> Str("openlibrary:" \o
                     TemplateText(Coalesce(Coalesce(Get(doc, "key"),
                                                    Get(doc, "cover_edition_key")), title))),
          source |-> Str("OpenLibrary"),
          rawId |-> Coalesce(Get(doc, "key"), title),
          title |-> title,
          authors |-> authors,
          description |-> Str(OpenLibraryDescription(doc, title.v, authors.items, categories)),
          categories |-> Arr(categories),
          coverUrl |-> IF Truthy(Get(doc, "cover_i"))
                       THEN Str("https://covers.openlibrary.org/b/id/" \o
                                TemplateText(Get(doc, "cover_i")) \o "-M.jpg")
                       ELSE UNDEF ]

\* records of the providers: a volume with all its fields, the same title in
\* other letters without authors, a volume without volumeInfo, and two docs
sgDune ==
    [ t |-> "object", id |-> Str("g1"),
      volumeInfo |-> [ t |-> "object", title |-> Str("Dune"),
                       authors |-> Arr(<< "Frank Herbert" >>),
                       description |-> Str("Spice."),
                       imageLinks |-> [ t |-> "object", smallThumbnail |-> Str("s.jpg") ] ] ]

sgDuneUpper ==
    [ t |-> "object", id |-> Str("g2"),
      volumeInfo |-> [ t |-> "object", title |-> Str("DUNE"),
                       authors |-> Arr(<< "FRANK HERBERT" >>) ] ]

sgBare == [ t |-> "object", id |-> Str("g3") ]

solDune ==
    [ t |-> "object", key |-> Str("/works/OL1W"), title |-> Str("dune"),
      author_name |-> Arr(<< "Frank Herbert" >>),
      subject |-> Arr(<< "Sand", "Worms" >>), cover_i |-> Str("7") ]

solEmma ==
    [ t |-> "object", title |-> Str("Emma"), first_sentence |-> Arr(<< "Emma Woodhouse." >>) ]

\* Number of searches submitted in the model.
MaxSearches == 2

\* the limit handleSearch asks for: searchBooks(query.trim(), 20)
PageLimit == 20

\* json.items || [] : the items of the response, none when the field is absent
ItemsOrNone(list) == IF Truthy(list) THEN list.items ELSE <<>>

\* the books the first try block of searchBooks leaves in google: the
\* normalized items of an ok response; none when fetch or json() throws, the
\* status is not ok, or normalizeGoogle throws
GoogleBooks(resp) ==
    IF resp.kind # "ok" THEN <<>>
    ELSE LET items == ItemsOrNone(resp.list)
             books == [i \in 1..Len(items) |-> normalizeGoogle(items[i])]
         IN  IF Threw(books) THEN <<>> ELSE books

\* the books the second try block of searchBooks leaves in ol
OpenLibraryBooks(resp) ==
    IF resp.kind # "ok" THEN <<>>
    ELSE LET docs == ItemsOrNone(resp.list)
             books == [i \in 1..Len(docs) |-> normalizeOpenLibrary(docs[i])]
         IN  IF Threw(books) THEN <<>> ELSE books

\* a key that tells upper case from lower case
DedupeKeyCaseSensitive(b) ==
    (IF Truthy(b.title) THEN b.title.v ELSE "") \o "|" \o
    (IF Nullish(b.authors) THEN "" ELSE JoinWith(b.authors.items, ","))

\* `${(b.title || "").toLowerCase()}|${(b.authors?.join(",") || "").toLowerCase()}`
DedupeKey(b) ==
    toLowerCase(IF Truthy(b.title) THEN b.title.v ELSE "") \o "|" \o
    toLowerCase(IF Nullish(b.authors) THEN "" ELSE JoinWith(b.authors.items, ","))

RECURSIVE DedupeFrom(_, _, _, _)
\* the for loop of dedupe from item i on, with the keys seen and the items out
DedupeFrom(items, i, seen, out) ==
    IF i > Len(items) THEN out
    ELSE LET key == DedupeKey(items[i]) IN
         IF key \in seen THEN DedupeFrom(items, i + 1, seen, out)
         ELSE DedupeFrom(items, i + 1, seen \cup {key}, Append(out, items[i]))

\* const dedupe = (items) => ...
dedupe(items) == DedupeFrom(items, 1, {}, <<>>)

\* what a call of searchBooks ends with: the books it returns or the error
Returned(books) == [ok |-> TRUE, books |-> books, message |-> ""]

Thrown(message) == [ok |-> FALSE, books |-> <<>>, message |-> message]

\* dedupe([...google, ...ol]).slice(0, limit)
Merged(google, ol, limit) == Slice(dedupe(google \o ol), limit)

\* the last two lines of searchBooks
searchBooks(google, ol, limit) ==
    LET merged == Merged(google, ol, limit) IN
    IF Len(merged) = 0 THEN Thrown("No results found (Google+OpenLibrary).")
    ELSE Returned(merged)

\* what the Google Books request ends with in the model: three failures, a
\* response without items, a null item, and lists of volumes
GoogleAnswers ==
    Failures \cup
    { [kind |-> "ok", list |-> UNDEF],
      [kind |-> "ok", list |-> Arr(<< NULL >>)],
      [kind |-> "ok", list |-> Arr(<< sgDune >>)],
      [kind |-> "ok", list |-> Arr(<< sgDune, sgBare, sgDuneUpper >>)] }

\* what the OpenLibrary request ends with in the model
OpenLibraryAnswers ==
    Failures \cup
    { [kind |-> "ok", list |-> Arr(<<>>)],
      [kind |-> "ok", list |-> Arr(<< solDune >>)],
      [kind |-> "ok", list |-> Arr(<< solEmma, solDune >>)] }

\* a call of searchBooks: the request it waits for ("none": not called,
\* "done": ended), its limit, whether handleSearch awaits it, the answer of
\* Google Books and the books made of it
NoCall == [pc |-> "none", limit |-> 0, page |-> FALSE, gResp |-> UNDEF, google |-> <<>>]

NoSearch == [id |-> 0, google |-> UNDEF, ol |-> UNDEF, limit |-> 0, outcome |-> Thrown("")]

\* the limits searchBooks is called with in the model
Limits == { 1, 2, PageLimit }

\* the key of addedKeys and of handleAdd
SearchKey(book) == buildKey(Get(book, "source"), Get(book, "rawId"), Get(book, "title"))

\* const addedKeys = useMemo(...): the keys of the library, the empty key left out
addedKeys(lib) == { KeyOf(lib[i]) : i \in 1..Len(lib) } \ { "" }

\* the argument SearchPage.handleAdd hands to onAddBook
AddedBook(book) ==
    [ t |-> "object",
      title |-> Get(book, "title"),
      rating |-> Num(0),
      comment |-> Str(""),
      source |-> Get(book, "source"),
      rawId |-> Get(book, "rawId"),
      authors |-> IF Truthy(Get(book, "author")) THEN Arr(<< Get(book, "author").v >>)
                  ELSE ArrayOr(Get(book, "authors")),
      description |-> Get(book, "description"),
      categories |-> Get(book, "categories"),
      apiRating |-> Get(book, "apiRating"),
      apiRatingsCount |-> Get(book, "apiRatingsCount"),
      coverUrl |-> Get(book, "coverUrl") ]

\* search results shown on the page in the model
ShownResults ==
    { normalizeGoogle(sgDune), normalizeGoogle(sgBare), normalizeOpenLibrary(solEmma) }

\* titles the chat page offers: a title, the same in other letters, none
ChatTitles == { "Dune", "DUNE ", "" }

\* Number of library operations (adds, ratings) of a session in the model.
MaxOps == 3

\* a text in localStorage: whether it is empty, JSON or neither, the value it
\* parses to, and whether it is laid out the way JSON.stringify lays it out
StoredText(form, value, compact) ==
    [t |-> "text", form |-> form, value |-> value, compact |-> compact]

\* JSON.parse(raw)
JsonParse(raw) == IF raw.form = "json" THEN raw.value ELSE SyntaxError

\* JSON.stringify(library)
StringifyLibrary(lib) ==
    StoredText("json", Arr([i \in 1..Len(lib) |-> JsonObject(lib[i])]), TRUE)

\* the load effect: the library it sets, or none
\* (getItem gives null for a key never set; JSON.parse throws into the catch)
Loaded(raw) ==
    IF raw.t = "null" \/ raw.form = "empty" THEN UNDEF
    ELSE LET parsed == JsonParse(raw) IN
         IF parsed.t = "array" THEN parsed ELSE UNDEF

\* the argument ChatPage hands to onAddBook: { title }
ChatBook(title) ==
    [ t |-> "object", title |-> Str(title), rating |-> UNDEF, comment |-> UNDEF,
      source |-> UNDEF, rawId |-> UNDEF, authors |-> UNDEF, description |-> UNDEF,
      categories |-> UNDEF, apiRating |-> UNDEF, apiRatingsCount |-> UNDEF,
      coverUrl |-> UNDEF ]

\* a book with an own rating and comment
RatedBook(title, rating, comment) ==
    [ ChatBook(title) EXCEPT !.rating = Num(rating), !.comment = Str(comment) ]

\* a book of a catalog
CatalogBook(title, source, rawId) ==
    [ ChatBook(title) EXCEPT !.source = Str(source), !.rawId = Str(rawId),
                             !.rating = Num(0), !.comment = Str(""),
                             !.authors = Arr(<< "Frank Herbert" >>),
                             !.description = Str("Spice.") ]

\* a book without a title
NoTitleBook == [ ChatBook("") EXCEPT !.title = UNDEF ]

\* the books handleAddBook is called with in the model: none at all, without
\* title, blank title, title with blanks around it, the same title in lower
\* case with a rating and a comment, a catalog book, another title under the
\* same catalog id, and a catalog book whose id is empty
AnyBooks ==
    { NULL, NoTitleBook, ChatBook("  "), ChatBook(" Dune "),
      RatedBook("dune", 4, " fine "),
      CatalogBook("Dune", "Google Books", "g1"),
      CatalogBook("Emma", "Google Books", "g1"),
      CatalogBook("Emma", "OpenLibrary", "") }

\* entries a stored library holds
StoredDune == JsonObject(Payload(RatedBook("Dune", 5, "again"), "Dune"))

StoredDuneTwin == JsonObject(Payload(ChatBook("DUNE"), "DUNE"))

\* what localStorage holds under LOCAL_STORAGE_KEY when the page opens: nothing,
\* the empty text, a text that is not JSON, the JSON of null and of an object,
\* and arrays: empty, of one entry, and (laid out by hand) of two entries
\* with the same key
StoredValues ==
    { NULL,
      StoredText("empty", UNDEF, TRUE),
      StoredText("invalid", UNDEF, FALSE),
      StoredText("json", NULL, TRUE),
      StoredText("json", [t |-> "object"], TRUE),
      StoredText("json", Arr(<<>>), TRUE),
      StoredText("json", Arr(<< StoredDune >>), TRUE),
      StoredText("json", Arr(<< StoredDune, StoredDuneTwin >>), FALSE) }

\* the books handleUpdateRating is called with in the model: a title, the
\* same title with blanks around it, and a catalog id
RateTargets ==
    { ChatBook("Dune"), ChatBook(" Dune "), CatalogBook("Dune", "Google Books", "g1") }

\* the ratings handleUpdateRating is called with in the model
AnyRatings == { Num(3), Num(7), UNDEF }

\* the books added in a session that is about the stored copy
FewBooks == { ChatBook(" Dune "), CatalogBook("Emma", "Google Books", "g1") }

NoOp == [op |-> "none", book |-> NULL, value |-> UNDEF]

(***************************************************************************)
(* State of a run of main().                                               *)
(***************************************************************************)
VARIABLES
    pc,         \* where main() stands
    qi,         \* index in SEARCH_QUERIES of the query of the for loop
    dirExists,  \* DATA_DIR exists
    file,       \* content of OUTPUT_FILE
    file0,      \* content of OUTPUT_FILE when the run started
    allBooks,   \* const allBooks = []
    seenIds,    \* const seenIds = new Set()
    olRes,      \* the promise of ingestFromOpenLibrary(query)
    gbRes,      \* the promise of ingestFromGoogleBooks(query)
    batch,      \* [...openLibBooks, ...googleBooks]
    bi,         \* position of the inner for loop in batch
    inflight,   \* the requests sent and not settled
    fatalErr,   \* the call whose exception main() rejected with
    writes,     \* calls of writeFileSync in this run
    exitCode,   \* exit status of the process
    log,        \* per query, what the loop printed: the counts line or the error line
    script,     \* the response every request of the run gets ("any": not fixed)
    run,        \* number of the run
    prev,       \* file and exit status the run before ended with
    nDoc,       \* a provider record handed to the normalizer
    nRec,       \* the normalizer's result
    db,         \* the rows of the tables of the database schema
    stmt,       \* the last SQL statement a client ran: who, what, where, how it ended
    visible,    \* the rows the last SELECT returned
    messages,   \* ChatPage: const [messages, setMessages] = useState([welcome])
    candidates, \* ChatPage: const candidates, as of the last render
    isLoading,  \* ChatPage: a request to the chat backend is in flight
    lastSend,   \* ChatPage: the input of the last call of sendMessage, and whether it went on
    library,    \* App: the state of const [library, setLibrary] = useState([])
    rendered,   \* App: const library, as of the last render
    stale,      \* App: setLibrary was called since the last render
    effects,    \* App: the effects of the last render that have not run yet
    storage,    \* localStorage.getItem(LOCAL_STORAGE_KEY)
    storage0,   \* what localStorage held when the page opened
    saveFailed, \* the last setItem threw
    lastOp,     \* the last call of handleAddBook or handleUpdateRating
    ops,        \* number of calls of handleAddBook and handleUpdateRating
    search,     \* SearchPage: the states results, error and isLoading
    calls,      \* the calls of searchBooks: where each stands, what it has so far
    found,      \* the last call of searchBooks that ended: its answers and outcome
    submits     \* number of submits of the search form and calls of searchBooks

runVars == << pc, qi, dirExists, file, file0, allBooks, seenIds, olRes, gbRes, batch, bi,
              inflight, fatalErr, writes, exitCode, log >>

\* the state of the App component and of localStorage
libVars == << library, rendered, stale, effects, storage, storage0, saveFailed, lastOp, ops >>

\* the state of the search page and of the calls of searchBooks
searchVars == << search, calls, found, submits >>

\* the state of the database and of the pages: no step of the script touches it
appVars == << db, stmt, visible, messages, candidates, isLoading, lastSend, libVars, searchVars >>

\* the state of the script
scriptVars == << runVars, script, run, prev, nDoc, nRec >>

vars == << pc, qi, dirExists, file, file0, allBooks, seenIds, olRes, gbRes, batch, bi,
           inflight, fatalErr, writes, exitCode, log, script, run, prev, nDoc, nRec,
           db, stmt, visible, messages, candidates, isLoading, lastSend, libVars, searchVars >>

AnyResponse == [kind |-> "any", list |-> UNDEF]

Allowed(r) == IF script[r].kind = "any" THEN Responses(r[2]) ELSE {script[r]}

NoPrev == [file |-> NoFile, exitCode |-> 0, ran |-> FALSE]

\* the database and the chat page while the script runs
\* the App component not mounted
InitLibrary ==
    /\ library = <<>>
    /\ rendered = <<>>
    /\ stale = FALSE
    /\ effects = <<>>
    /\ storage = NULL
    /\ storage0 = NULL
    /\ saveFailed = FALSE
    /\ lastOp = NoOp
    /\ ops = 0

\* the search page before any search
InitSearch ==
    /\ search = [results |-> <<>>, error |-> NULL, isLoading |-> FALSE]
    /\ calls = [id \in 1..MaxSearches |-> NoCall]
    /\ found = NoSearch
    /\ submits = 0

InitApp ==
    /\ db = EmptyDb
    /\ stmt = NoStatement
    /\ visible = {}
    /\ messages = << Welcome >>
    /\ candidates = <<>>
    /\ isLoading = FALSE
    /\ lastSend = NoSend
    /\ InitLibrary
    /\ InitSearch

\* the script while nothing runs it
InitScript ==
    /\ pc = "start"
    /\ qi = 1
    /\ dirExists = TRUE
    /\ file = NoFile
    /\ file0 = NoFile
    /\ allBooks = <<>>
    /\ seenIds = {}
    /\ olRes = Pending
    /\ gbRes = Pending
    /\ batch = <<>>
    /\ bi = 1
    /\ inflight = {}
    /\ fatalErr = "none"
    /\ writes = 0
    /\ exitCode = 0
    /\ log = <<>>
    /\ script = [r \in Requests |-> AnyResponse]
    /\ run = 1
    /\ prev = NoPrev
    /\ nDoc = UNDEF
    /\ nRec = UNDEF

\* main() before its first statement
InitRun ==
    /\ pc = "start"
    /\ qi = 1
    /\ allBooks = <<>>
    /\ seenIds = {}
    /\ olRes = Pending
    /\ gbRes = Pending
    /\ batch = <<>>
    /\ bi = 1
    /\ inflight = {}
    /\ fatalErr = "none"
    /\ writes = 0
    /\ exitCode = 0
    /\ log = <<>>

\* the data directory and the output file a run can find
InitDisk ==
    /\ \E d \in {<<FALSE, NoFile>>, <<TRUE, NoFile>>, <<TRUE, OldFile>>} :
           /\ dirExists = d[1]
           /\ file = d[2]
    /\ file0 = file

Init ==
    /\ InitRun
    /\ InitDisk
    /\ script = [r \in Requests |-> AnyResponse]
    /\ run = 1
    /\ prev = NoPrev
    /\ nDoc = UNDEF
    /\ nRec = UNDEF
    /\ InitApp

(***************************************************************************)
(* ensureDataDir                                                           *)
(***************************************************************************)
\* if (!fs.existsSync(DATA_DIR))
EnsureDataDirCheck ==
    /\ pc = "start"
    /\ pc' = IF dirExists THEN "loop" ELSE "mkdir"
    /\ UNCHANGED << qi, dirExists, file, file0, allBooks, seenIds, olRes, gbRes, batch, bi,
                    inflight, fatalErr, writes, exitCode, log, script, run, prev, nDoc, nRec, appVars >>

\* another process creates the directory
DirAppears ==
    /\ pc \in {"start", "mkdir"}
    /\ ~dirExists
    /\ dirExists' = TRUE
    /\ UNCHANGED << pc, qi, file, file0, allBooks, seenIds, olRes, gbRes, batch, bi,
                    inflight, fatalErr, writes, exitCode, log, script, run, prev, nDoc, nRec, appVars >>

\* fs.mkdirSync(DATA_DIR, { recursive: true }) returns: no error if the directory exists
MkdirOk ==
    /\ pc = "mkdir"
    /\ dirExists' = TRUE
    /\ pc' = "loop"
    /\ UNCHANGED << qi, file, file0, allBooks, seenIds, olRes, gbRes, batch, bi,
                    inflight, fatalErr, writes, exitCode, log, script, run, prev, nDoc, nRec, appVars >>

\* fs.mkdirSync without { recursive: true }: it throws for a directory that exists too
MkdirFailExists ==
    /\ pc = "mkdir"
    /\ fatalErr' = "mkdir"
    /\ pc' = "fatal"
    /\ UNCHANGED << qi, dirExists, file, file0, allBooks, seenIds, olRes, gbRes, batch, bi,
                    inflight, writes, exitCode, log, script, run, prev, nDoc, nRec, appVars >>

\* fs.mkdirSync throws (no permission, read-only volume): main() rejects
MkdirFail ==
    /\ pc = "mkdir"
    /\ ~dirExists
    /\ fatalErr' = "mkdir"
    /\ pc' = "fatal"
    /\ UNCHANGED << qi, dirExists, file, file0, allBooks, seenIds, olRes, gbRes, batch, bi,
                    inflight, writes, exitCode, log, script, run, prev, nDoc, nRec, appVars >>

(***************************************************************************)
(* The loop over SEARCH_QUERIES                                            *)
(***************************************************************************)
\* The loop takes the next query and calls both ingest functions: both requests
\* are sent before main() waits at await Promise.all.
StartQuery ==
    /\ pc = "loop"
    /\ qi <= NumQueries
    /\ inflight' = inflight \cup {<<qi, "openlibrary">>, <<qi, "google_books">>}
    /\ olRes' = Pending
    /\ gbRes' = Pending
    /\ pc' = "await"
    /\ UNCHANGED << qi, dirExists, file, file0, allBooks, seenIds, batch, bi,
                    fatalErr, writes, exitCode, log, script, run, prev, nDoc, nRec, appVars >>

\* A request of the query main() waits for settles: its ingest promise is
\* fulfilled or rejected, and Promise.all after it.
SettleAwaited(r, resp) ==
    /\ pc = "await"
    /\ r \in inflight
    /\ r[1] = qi
    /\ resp \in Allowed(r)
    /\ inflight' = inflight \ {r}
    /\ olRes' = IF r[2] = "openlibrary" THEN Ingest(r[2], resp) ELSE olRes
    /\ gbRes' = IF r[2] = "google_books" THEN Ingest(r[2], resp) ELSE gbRes
    /\ pc' = CASE PromiseAll(olRes', gbRes') = "rejected" -> "catch"
               [] PromiseAll(olRes', gbRes') = "fulfilled" -> "merge"
               [] OTHER -> "await"
    /\ batch' = IF PromiseAll(olRes', gbRes') = "fulfilled"
                THEN Spread(olRes'.books, gbRes'.books) ELSE batch
    /\ bi' = IF PromiseAll(olRes', gbRes') = "fulfilled" THEN 1 ELSE bi
    /\ log' = IF PromiseAll(olRes', gbRes') = "fulfilled" THEN Append(log, "counts") ELSE log
    /\ UNCHANGED << qi, dirExists, file, file0, allBooks, seenIds,
                    fatalErr, writes, exitCode, script, run, prev, nDoc, nRec, appVars >>

\* A request settles that main() no longer waits for (Promise.all was rejected
\* by the other request of its query): whatever it ends with, nothing reads it.
SettleAbandoned(r) ==
    /\ r \in inflight
    /\ ~(pc = "await" /\ r[1] = qi)
    /\ pc # "exited"
    /\ inflight' = inflight \ {r}
    /\ UNCHANGED << pc, qi, dirExists, file, file0, allBooks, seenIds, olRes, gbRes, batch,
                    bi, fatalErr, writes, exitCode, log, script, run, prev, nDoc, nRec, appVars >>

\* one turn of for (const book of [...openLibBooks, ...googleBooks])
MergeStep ==
    /\ pc = "merge"
    /\ bi <= Len(batch)
    /\ allBooks' = Accumulate(allBooks, seenIds, batch[bi])
    /\ seenIds' = IF KeepsBook(seenIds, batch[bi]) THEN seenIds \cup {batch[bi].id}
                  ELSE seenIds
    /\ bi' = bi + 1
    /\ UNCHANGED << pc, qi, dirExists, file, file0, olRes, gbRes, batch,
                    inflight, fatalErr, writes, exitCode, log, script, run, prev, nDoc, nRec, appVars >>

\* a loop that steps over the query after the one it has merged
MergeDoneSkip ==
    /\ pc = "merge"
    /\ bi > Len(batch)
    /\ qi' = qi + 2
    /\ pc' = "loop"
    /\ olRes' = Pending
    /\ gbRes' = Pending
    /\ batch' = <<>>
    /\ bi' = 1
    /\ UNCHANGED << dirExists, file, file0, allBooks, seenIds,
                    inflight, fatalErr, writes, exitCode, log, script, run, prev, nDoc, nRec, appVars >>

\* the inner loop ends: on to the next query (the block's constants go out of scope)
MergeDone ==
    /\ pc = "merge"
    /\ bi > Len(batch)
    /\ qi' = qi + 1
    /\ pc' = "loop"
    /\ olRes' = Pending
    /\ gbRes' = Pending
    /\ batch' = <<>>
    /\ bi' = 1
    /\ UNCHANGED << dirExists, file, file0, allBooks, seenIds,
                    inflight, fatalErr, writes, exitCode, log, script, run, prev, nDoc, nRec, appVars >>

\* a catch block that gives the run up at the first failed query
CatchQueryStop ==
    /\ pc = "catch"
    /\ qi' = NumQueries + 1
    /\ pc' = "loop"
    /\ olRes' = Pending
    /\ gbRes' = Pending
    /\ log' = Append(log, "error")
    /\ UNCHANGED << dirExists, file, file0, allBooks, seenIds, batch, bi,
                    inflight, fatalErr, writes, exitCode, script, run, prev, nDoc, nRec, appVars >>

\* catch (err) { console.error(...) }: on to the next query
CatchQuery ==
    /\ pc = "catch"
    /\ qi' = qi + 1
    /\ pc' = "loop"
    /\ olRes' = Pending
    /\ gbRes' = Pending
    /\ log' = Append(log, "error")
    /\ UNCHANGED << dirExists, file, file0, allBooks, seenIds, batch, bi,
                    inflight, fatalErr, writes, exitCode, script, run, prev, nDoc, nRec, appVars >>

(***************************************************************************)
(* After the loop                                                          *)
(***************************************************************************)
\* fs.writeFileSync(OUTPUT_FILE, JSON.stringify(allBooks, null, 2), "utf8") returns
WriteFileOk ==
    /\ pc = "loop"
    /\ qi > NumQueries
    /\ file' = WrittenFile(file, Stringify(allBooks))
    /\ writes' = writes + 1
    /\ pc' = "resolved"
    /\ UNCHANGED << qi, dirExists, file0, allBooks, seenIds, olRes, gbRes, batch, bi,
                    inflight, fatalErr, exitCode, log, script, run, prev, nDoc, nRec, appVars >>

\* fs.writeFileSync throws: main() rejects
WriteFileFail ==
    /\ pc = "loop"
    /\ qi > NumQueries
    /\ file' \in FailedWrites(file, Stringify(allBooks))
    /\ writes' = writes + 1
    /\ fatalErr' = "write"
    /\ pc' = "fatal"
    /\ UNCHANGED << qi, dirExists, file0, allBooks, seenIds, olRes, gbRes, batch, bi,
                    inflight, exitCode, log, script, run, prev, nDoc, nRec, appVars >>

\* a top-level handler that logs the error and lets the process end normally
MainCatchNoExit ==
    /\ pc = "fatal"
    /\ inflight' = {}
    /\ pc' = "exited"
    /\ UNCHANGED << qi, dirExists, file, file0, allBooks, seenIds, olRes, gbRes, batch, bi,
                    fatalErr, writes, exitCode, log, script, run, prev, nDoc, nRec, appVars >>

\* main().catch((err) => { console.error(...); process.exit(1); })
MainCatch ==
    /\ pc = "fatal"
    /\ exitCode' = 1
    /\ inflight' = {}
    /\ pc' = "exited"
    /\ UNCHANGED << qi, dirExists, file, file0, allBooks, seenIds, olRes, gbRes, batch, bi,
                    fatalErr, writes, log, script, run, prev, nDoc, nRec, appVars >>

\* main() has returned and no request is left: the process ends, exit status 0
ExitOk ==
    /\ pc = "resolved"
    /\ inflight = {}
    /\ pc' = "exited"
    /\ UNCHANGED << qi, dirExists, file, file0, allBooks, seenIds, olRes, gbRes, batch, bi,
                    inflight, fatalErr, writes, exitCode, log, script, run, prev, nDoc, nRec, appVars >>

Next ==
    \/ EnsureDataDirCheck
    \/ DirAppears
    \/ MkdirOk
    \/ MkdirFail
    \/ StartQuery
    \/ \E r \in inflight : \E resp \in Allowed(r) : SettleAwaited(r, resp)
    \/ \E r \in Requests : SettleAbandoned(r)
    \/ MergeStep
    \/ MergeDone
    \/ CatchQuery
    \/ WriteFileOk
    \/ WriteFileFail
    \/ MainCatch
    \/ ExitOk

Spec == Init /\ [][Next]_vars

(***************************************************************************)
(* A second run of the script on the same disk, the providers answering    *)
(* every request as in the first run.                                      *)
(***************************************************************************)
ScriptResponses(p) ==
    IF p = "openlibrary"
    THEN { [kind |-> "http_error", list |-> UNDEF],
           [kind |-> "ok", list |-> Arr(<<olDune>>)] }
    ELSE { [kind |-> "http_error", list |-> UNDEF],
           [kind |-> "ok", list |-> Arr(<<gDune>>)],
           [kind |-> "ok", list |-> Arr(<<gDuneRich>>)] }

InitRerun ==
    /\ InitRun
    /\ InitDisk
    /\ \E fo \in [Queries -> ScriptResponses("openlibrary")] :
       \E fg \in [Queries -> ScriptResponses("google_books")] :
           script = [r \in Requests |->
                        IF r[2] = "openlibrary" THEN fo[r[1]] ELSE fg[r[1]]]
    /\ run = 1
    /\ prev = NoPrev
    /\ nDoc = UNDEF
    /\ nRec = UNDEF
    /\ InitApp

\* the script is started again after the first run has ended
Rerun ==
    /\ pc = "exited"
    /\ ~prev.ran
    /\ prev' = [file |-> file, exitCode |-> exitCode, ran |-> TRUE]
    /\ run' = run + 1
    /\ file0' = file
    /\ pc' = "start"
    /\ qi' = 1
    /\ allBooks' = <<>>
    /\ seenIds' = {}
    /\ olRes' = Pending
    /\ gbRes' = Pending
    /\ batch' = <<>>
    /\ bi' = 1
    /\ inflight' = {}
    /\ fatalErr' = "none"
    /\ writes' = 0
    /\ exitCode' = 0
    /\ log' = <<>>
    /\ UNCHANGED << dirExists, file, script, nDoc, nRec, appVars >>

NextRerun == Next \/ Rerun

SpecRerun == InitRerun /\ [][NextRerun]_vars

\* main() runs to completion: each statement it has reached is executed
RunStep ==
    \/ EnsureDataDirCheck
    \/ MkdirOk
    \/ MkdirFail
    \/ StartQuery
    \/ MergeStep
    \/ MergeDone
    \/ CatchQuery
    \/ WriteFileOk
    \/ WriteFileFail
    \/ MainCatch
    \/ ExitOk

\* a provider answers (or fails) a request that is in flight
Settle ==
    \/ \E r \in inflight : \E resp \in Allowed(r) : SettleAwaited(r, resp)
    \/ \E r \in Requests : SettleAbandoned(r)

\* One run with providers that settle every request and an event loop that
\* runs every continuation that is ready; each request fails or gets a book.
SpecLive == InitRerun /\ [][Next]_vars /\ WF_vars(RunStep) /\ WF_vars(Settle)

(***************************************************************************)
(* One run in which the response of every request is fixed beforehand.     *)
(***************************************************************************)
FixedResponses(p) ==
    IF p = "openlibrary"
    THEN { [kind |-> "http_error", list |-> UNDEF],
           [kind |-> "ok", list |-> Arr(<<olDune>>)],
           [kind |-> "ok", list |-> Arr(<<olUntitled, olDune>>)] }
    ELSE { [kind |-> "http_error", list |-> UNDEF],
           [kind |-> "ok", list |-> Arr(<<gDune>>)],
           [kind |-> "ok", list |-> Arr(<<gDuneRich, gDune>>)],
           [kind |-> "ok", list |-> Arr(<<gBare>>)] }

InitFixed ==
    /\ InitRun
    /\ InitDisk
    /\ \E fo \in [Queries -> FixedResponses("openlibrary")] :
       \E fg \in [Queries -> FixedResponses("google_books")] :
           script = [r \in Requests |->
                        IF r[2] = "openlibrary" THEN fo[r[1]] ELSE fg[r[1]]]
    /\ run = 1
    /\ prev = NoPrev
    /\ nDoc = UNDEF
    /\ nRec = UNDEF
    /\ InitApp

SpecFixed == InitFixed /\ [][Next]_vars

(***************************************************************************)
(* One run against providers that return whole pages, and pages longer     *)
(* than the page size asked for, of records with ids of their own.         *)
(***************************************************************************)
\* url.searchParams.set("limit" / "maxResults", String(LIMIT_PER_QUERY_PER_SOURCE))
RequestedPageSize(p) == LIMIT_PER_QUERY_PER_SOURCE

\* the i-th record a provider has for query q
NumberedRecord(p, q, i) ==
    IF p = "openlibrary"
    THEN OLDoc(Str("/works/Q" \o ToString(q) \o "-" \o ToString(i)), UNDEF, UNDEF,
               Str("Title"), UNDEF)
    ELSE [ t |-> "object", id |-> Str("q" \o ToString(q) \o "-" \o ToString(i)),
           volumeInfo |-> VolumeInfo(Str("Title"), UNDEF, UNDEF) ]

\* a response of n records
Page(p, q, n) == [kind |-> "ok", list |-> Arr([i \in 1..n |-> NumberedRecord(p, q, i)])]

\* what a provider does with a request: fail, return the page asked for, or
\* return a page with one record more than asked for
PageKinds == {"http_error", "page", "overlong"}

PageResponse(r, k) ==
    CASE k = "http_error" -> [kind |-> "http_error", list |-> UNDEF]
      [] k = "page" -> Page(r[2], r[1], RequestedPageSize(r[2]))
      [] OTHER -> Page(r[2], r[1], RequestedPageSize(r[2]) + 1)

InitPages ==
    /\ InitRun
    /\ dirExists \in BOOLEAN
    /\ file = NoFile
    /\ file0 = NoFile
    /\ \E k \in [Requests -> PageKinds] :
           script = [r \in Requests |-> PageResponse(r, k[r])]
    /\ run = 1
    /\ prev = NoPrev
    /\ nDoc = UNDEF
    /\ nRec = UNDEF
    /\ InitApp

SpecPages == InitPages /\ [][Next]_vars

(***************************************************************************)
(* The normalizer on its own: one provider record in, one record out.      *)
(***************************************************************************)
KeyValues == {UNDEF, NULL, Str(""), Str("K")}

EditionKeyValues == {UNDEF, NULL, Str(""), Str("E")}

IsbnValues == {UNDEF, NULL, Arr(<<>>), Arr(<<"">>), Arr(<<"I">>), Arr(<<"I", "J">>)}

TitleValues == {UNDEF, NULL, Str(""), Str("T")}

AnyOLDocs ==
    { OLDoc(k, e, i, t, UNDEF) :
          k \in KeyValues, e \in EditionKeyValues, i \in IsbnValues, t \in TitleValues }

AnyGoogleItems ==
    { [t |-> "object", id |-> i, volumeInfo |-> v] :
          i \in KeyValues,
          v \in {UNDEF, NULL} \cup
                { VolumeInfo(t, UNDEF, d) : t \in TitleValues, d \in {UNDEF, Str("X")} } }

IsOLDoc(doc) == "key" \in DOMAIN doc

IsGoogleItem(doc) == "volumeInfo" \in DOMAIN doc

Normalized == "id" \in DOMAIN nRec

InitNormalize ==
    /\ InitRun
    /\ dirExists = TRUE
    /\ file = NoFile
    /\ file0 = NoFile
    /\ script = [r \in Requests |-> AnyResponse]
    /\ run = 1
    /\ prev = NoPrev
    /\ nDoc \in AnyOLDocs \cup AnyGoogleItems
    /\ nRec = UNDEF
    /\ InitApp

NormalizeOpenLibrary ==
    /\ IsOLDoc(nDoc)
    /\ ~Normalized
    /\ nRec' = normalizeOpenLibraryDoc(nDoc)
    /\ UNCHANGED << runVars, script, run, prev, nDoc, appVars >>

NormalizeGoogle ==
    /\ IsGoogleItem(nDoc)
    /\ ~Normalized
    /\ nRec' = normalizeGoogleVolume(nDoc)
    /\ UNCHANGED << runVars, script, run, prev, nDoc, appVars >>

NextNormalize == NormalizeOpenLibrary \/ NormalizeGoogle

SpecNormalize == InitNormalize /\ [][NextNormalize]_vars

(***************************************************************************)
(* Clients of the database: every statement runs as auth.uid(), a signed-in *)
(* user or nobody, under the policies of the schema.                       *)
(***************************************************************************)
InitRls ==
    /\ InitScript
    /\ db = EmptyDb
    /\ stmt = NoStatement
    /\ visible = {}
    /\ messages = << Welcome >>
    /\ candidates = <<>>
    /\ isLoading = FALSE
    /\ lastSend = NoSend
    /\ InitLibrary
    /\ InitSearch

\* SELECT * FROM t: the rows the SELECT policies let through
Select(uid, t) ==
    /\ visible' = { r \in db[t] : UsingPasses(uid, t, "SELECT", r, db) }
    /\ stmt' = Statement(uid, "SELECT", t, "ok")
    /\ UNCHANGED << db, messages, candidates, isLoading, lastSend, libVars, searchVars, scriptVars >>

\* INSERT INTO t VALUES (row): an error when the new row fails the check
Insert(uid, t, row) ==
    /\ row \in RowsOf(t)
    /\ \A r \in db[t] : r.id # row.id
    /\ ForeignKeyHolds(t, row, db)
    /\ IF CheckPasses(uid, t, "INSERT", row, db)
       THEN /\ db' = [db EXCEPT ![t] = @ \cup {row}]
            /\ stmt' = Statement(uid, "INSERT", t, "ok")
       ELSE /\ db' = db
            /\ stmt' = Statement(uid, "INSERT", t, "error")
    /\ visible' = {}
    /\ UNCHANGED << messages, candidates, isLoading, lastSend, libVars, searchVars, scriptVars >>

\* UPDATE t SET ... WHERE id = row.id: rows the statement does not reach are
\* left alone without an error; an error when the new row fails the check
Update(uid, t, row) ==
    /\ row \in RowsOf(t)
    /\ ForeignKeyHolds(t, row, db)
    /\ LET hit == { r \in Reachable(uid, t, "UPDATE", db) : r.id = row.id } IN
       IF hit = {}
       THEN /\ db' = db
            /\ stmt' = Statement(uid, "UPDATE", t, "ok")
       ELSE IF CheckPasses(uid, t, "UPDATE", row, db)
       THEN /\ db' = [db EXCEPT ![t] = (@ \ hit) \cup {row}]
            /\ stmt' = Statement(uid, "UPDATE", t, "ok")
       ELSE /\ db' = db
            /\ stmt' = Statement(uid, "UPDATE", t, "error")
    /\ visible' = {}
    /\ UNCHANGED << messages, candidates, isLoading, lastSend, libVars, searchVars, scriptVars >>

\* DELETE FROM t WHERE id = id: only rows the statement reaches go; deleting a
\* conversation takes its messages along (ON DELETE CASCADE)
Delete(uid, t, id) ==
    /\ LET hit == { r \in Reachable(uid, t, "DELETE", db) : r.id = id } IN
       db' = [x \in Tables |->
                 IF x = t THEN db[x] \ hit
                 ELSE IF x = "messages" /\ t = "conversations"
                 THEN { m \in db[x] : \A c \in hit : c.id # m.conversation_id }
                 ELSE db[x]]
    /\ stmt' = Statement(uid, "DELETE", t, "ok")
    /\ visible' = {}
    /\ UNCHANGED << messages, candidates, isLoading, lastSend, libVars, searchVars, scriptVars >>

NextRls ==
    \/ \E uid \in Users \cup {SqlNull} : \E t \in Tables : Select(uid, t)
    \/ \E uid \in Users \cup {SqlNull} : \E t \in Tables : \E row \in RowsOf(t) :
           Insert(uid, t, row)
    \/ \E uid \in Users \cup {SqlNull} : \E t \in Tables : \E row \in RowsOf(t) :
           Update(uid, t, row)
    \/ \E uid \in Users \cup {SqlNull} : \E t \in Tables : \E id \in RowIds(t) :
           Delete(uid, t, id)

SpecRls == InitRls /\ [][NextRls]_vars

(***************************************************************************)
(* The chat page: the user sends, the assistant answers, and the page      *)
(* renders again after every change of messages.                           *)
(***************************************************************************)
\* the page after its first render
InitChat ==
    /\ InitScript
    /\ db = EmptyDb
    /\ stmt = NoStatement
    /\ visible = {}
    /\ messages = << Welcome >>
    /\ candidates = Candidates(<< Welcome >>)
    /\ isLoading = FALSE
    /\ lastSend = NoSend
    /\ InitLibrary
    /\ InitSearch

\* a sendMessage that does not look at isLoading
SendMessageWhileLoading(input) ==
    /\ (Trim(input) = <<>> \/ isLoading
          \/ Cardinality(OfRole(messages, "user")) < MaxExchanges)
    /\ IF Trim(input) = <<>>
       THEN /\ lastSend' = [input |-> input, accepted |-> FALSE]
            /\ UNCHANGED << messages, candidates, isLoading >>
       ELSE LET next == Append(messages, Message("user", Trim(input))) IN
            /\ messages' = next
            /\ candidates' = Candidates(next)
            /\ isLoading' = TRUE
            /\ lastSend' = [input |-> input, accepted |-> TRUE]
    /\ UNCHANGED << db, stmt, visible, libVars, searchVars, scriptVars >>

\* sendMessage up to the request: if (!input.trim() || isLoading) return;
\* setMessages((prev) => [...prev, userMessage]); setIsLoading(true)
SendMessage(input) ==
    /\ (Trim(input) = <<>> \/ isLoading
          \/ Cardinality(OfRole(messages, "user")) < MaxExchanges)
    /\ IF Trim(input) = <<>> \/ isLoading
       THEN /\ lastSend' = [input |-> input, accepted |-> FALSE]
            /\ UNCHANGED << messages, candidates, isLoading >>
       ELSE LET next == Append(messages, Message("user", Trim(input))) IN
            /\ messages' = next
            /\ candidates' = Candidates(next)
            /\ isLoading' = TRUE
            /\ lastSend' = [input |-> input, accepted |-> TRUE]
    /\ UNCHANGED << db, stmt, visible, libVars, searchVars, scriptVars >>

\* the request succeeds: setMessages((prev) => [...prev, aiMessage]), and
\* setIsLoading(false) in the finally block
ReceiveReply(reply) ==
    /\ isLoading
    /\ LET next == Append(messages, Message("assistant", ReplyText(reply))) IN
           /\ messages' = next
           /\ candidates' = Candidates(next)
    /\ isLoading' = FALSE
    /\ UNCHANGED << lastSend, db, stmt, visible, libVars, searchVars, scriptVars >>

\* the request fails: the catch block appends its own aiMessage, and
\* setIsLoading(false) in the finally block
ReceiveError ==
    /\ isLoading
    /\ LET next == Append(messages, Message("assistant", ServerIssue)) IN
           /\ messages' = next
           /\ candidates' = Candidates(next)
    /\ isLoading' = FALSE
    /\ UNCHANGED << lastSend, db, stmt, visible, libVars, searchVars, scriptVars >>

\* the first reply is any text of up to MaxLines lines, the later ones short
NextChat ==
    \/ \E input \in Inputs : Trim(input) # <<>> /\ ~isLoading /\ SendMessage(input)
    \/ /\ Cardinality(OfRole(messages, "user")) = 1
       /\ isLoading
       /\ \E n \in 0..MaxLines : \E lines \in [1..n -> LineSamples] :
              ReceiveReply(Join(lines))
    \/ /\ Cardinality(OfRole(messages, "user")) > 1
       /\ \E reply \in ShortReplies : ReceiveReply(reply)
    \/ ReceiveError

SpecChat == InitChat /\ [][NextChat]_vars

\* sendMessage called with any input at any time, and short answers
NextSend ==
    \/ \E input \in SendInputs : SendMessage(input)
    \/ \E reply \in ShortReplies : ReceiveReply(reply)
    \/ ReceiveError

SpecSend == InitChat /\ [][NextSend]_vars

(***************************************************************************)
(* The App component: mount, the two effects, and the calls of             *)
(* handleAddBook and handleUpdateRating.  setLibrary queues an update; the *)
(* next render takes the state and runs the persist effect after it.       *)
(***************************************************************************)
\* the database and the chat page stay as they start
InitPagesIdle ==
    /\ db = EmptyDb
    /\ stmt = NoStatement
    /\ visible = {}
    /\ messages = << Welcome >>
    /\ candidates = <<>>
    /\ isLoading = FALSE
    /\ lastSend = NoSend

\* App after its first render: both effects are due, the load effect first
InitMount ==
    /\ InitScript
    /\ InitPagesIdle
    /\ InitSearch
    /\ storage0 \in StoredValues
    /\ storage = storage0
    /\ library = <<>>
    /\ rendered = <<>>
    /\ stale = FALSE
    /\ effects = << "load", "persist" >>
    /\ saveFailed = FALSE
    /\ lastOp = NoOp
    /\ ops = 0

\* useEffect(() => { ... setLibrary(parsed) ... }, [])
LoadEffect ==
    /\ effects # <<>>
    /\ Head(effects) = "load"
    /\ LET parsed == Loaded(storage) IN
           IF parsed.t = "array"
           THEN library' = parsed.items /\ stale' = TRUE
           ELSE UNCHANGED << library, stale >>
    /\ effects' = Tail(effects)
    /\ UNCHANGED << rendered, storage, storage0, saveFailed, lastOp, ops,
                    db, stmt, visible, messages, candidates, isLoading, lastSend, searchVars, scriptVars >>

\* useEffect(() => { setItem(KEY, JSON.stringify(library)) }, [library]):
\* library is the one of the render the effect belongs to
PersistEffect ==
    /\ effects # <<>>
    /\ Head(effects) = "persist"
    /\ storage' = StringifyLibrary(rendered)
    /\ saveFailed' = FALSE
    /\ effects' = Tail(effects)
    /\ UNCHANGED << library, rendered, stale, storage0, lastOp, ops,
                    db, stmt, visible, messages, candidates, isLoading, lastSend, searchVars, scriptVars >>

\* setItem throws (the quota is used up, storage is switched off): the catch
\* block logs, the stored value stays
PersistEffectFail ==
    /\ effects # <<>>
    /\ Head(effects) = "persist"
    /\ saveFailed' = TRUE
    /\ effects' = Tail(effects)
    /\ UNCHANGED << library, rendered, stale, storage, storage0, lastOp, ops,
                    db, stmt, visible, messages, candidates, isLoading, lastSend, searchVars, scriptVars >>

\* a render after which the persist effect does not run again, as with an
\* empty dependency list
RenderNoPersist ==
    /\ effects = <<>>
    /\ stale
    /\ rendered' = library
    /\ stale' = FALSE
    /\ UNCHANGED << library, effects, storage, storage0, saveFailed, lastOp, ops,
                    db, stmt, visible, messages, candidates, isLoading, lastSend, searchVars, scriptVars >>

\* the render a setLibrary call brings about; its persist effect is due
Render ==
    /\ effects = <<>>
    /\ stale
    /\ rendered' = library
    /\ stale' = FALSE
    /\ effects' = << "persist" >>
    /\ UNCHANGED << library, storage, storage0, saveFailed, lastOp, ops,
                    db, stmt, visible, messages, candidates, isLoading, lastSend, searchVars, scriptVars >>

\* a call handleAddBook(book)
AddBook(book) ==
    /\ effects = <<>>
    /\ ops < MaxOps
    /\ library' = handleAddBook(library, book)
    /\ stale' = (stale \/ ~Untitled(book))
    /\ lastOp' = [op |-> "add", book |-> book, value |-> UNDEF]
    /\ ops' = ops + 1
    /\ UNCHANGED << rendered, effects, storage, storage0, saveFailed,
                    db, stmt, visible, messages, candidates, isLoading, lastSend, searchVars, scriptVars >>

\* a call handleUpdateRating(bookInfo, newRating)
UpdateRating(bookInfo, newRating) ==
    /\ effects = <<>>
    /\ ops < MaxOps
    /\ library' = handleUpdateRating(library, bookInfo, newRating)
    /\ stale' = TRUE
    /\ lastOp' = [op |-> "rate", book |-> bookInfo, value |-> newRating]
    /\ ops' = ops + 1
    /\ UNCHANGED << rendered, effects, storage, storage0, saveFailed,
                    db, stmt, visible, messages, candidates, isLoading, lastSend, searchVars, scriptVars >>

\* LibraryPage: a click on star value of the i-th book of the page
StarClick(i, value) ==
    /\ effects = <<>>
    /\ ~stale
    /\ ops < MaxOps
    /\ i \in 1..Len(rendered)
    /\ library' = handleUpdateRating(library, WithRawId(rendered[i]), value)
    /\ stale' = TRUE
    /\ lastOp' = [op |-> "star", book |-> WithRawId(rendered[i]), value |-> value]
    /\ ops' = ops + 1
    /\ UNCHANGED << rendered, effects, storage, storage0, saveFailed,
                    db, stmt, visible, messages, candidates, isLoading, lastSend, searchVars, scriptVars >>

\* a session over any stored value: two books are added, books are rated
NextLibrary ==
    \/ LoadEffect
    \/ PersistEffect
    \/ PersistEffectFail
    \/ Render
    \/ \E book \in FewBooks : AddBook(book)
    \/ \E i \in 1..Len(rendered) : StarClick(i, Num(5))

SpecLibrary == InitMount /\ [][NextLibrary]_vars

\* React runs the effects of a render and renders again after setLibrary
SpecLibraryLive ==
    /\ SpecLibrary
    /\ WF_vars(LoadEffect)
    /\ WF_vars(PersistEffect \/ PersistEffectFail)
    /\ WF_vars(Render)

\* App opened with nothing stored: the library starts empty
InitEmptyLibrary ==
    /\ InitMount
    /\ storage0 = NULL

\* any calls of the two handlers, and star clicks
NextHandlers ==
    \/ LoadEffect
    \/ PersistEffect
    \/ Render
    \/ \E book \in AnyBooks : AddBook(book)
    \/ \E bookInfo \in RateTargets : \E newRating \in AnyRatings :
           UpdateRating(bookInfo, newRating)
    \/ \E i \in 1..Len(rendered) : \E value \in Stars : StarClick(i, value)

SpecHandlers == InitEmptyLibrary /\ [][NextHandlers]_vars

\* SearchPage: a click on the Add button of a result
SearchAdd(book) ==
    /\ ~stale
    /\ ~(SearchKey(book) # "" /\ SearchKey(book) \in addedKeys(rendered))
    /\ AddBook(AddedBook(book))

\* the pages: adds from the chat, adds from the search, star clicks
NextStars ==
    \/ LoadEffect
    \/ PersistEffect
    \/ Render
    \/ \E title \in ChatTitles : ~stale /\ AddBook(ChatBook(title))
    \/ \E book \in ShownResults : SearchAdd(book)
    \/ \E i \in 1..Len(rendered) : \E value \in Stars : StarClick(i, value)

SpecStars == InitEmptyLibrary /\ [][NextStars]_vars

(***************************************************************************)
(* Properties of the ingestion run.                                        *)
(***************************************************************************)
Titled(books) == { books[i].id : i \in {j \in 1..Len(books) : books[j].title # ""} }

\* exactly one of the two requests of the query failed; the other's records
OnlyOneFailed == {olRes.tag, gbRes.tag} = {"rejected", "fulfilled"}

Survivor == IF olRes.tag = "fulfilled" THEN olRes.books ELSE gbRes.books

\* C1: when, for a query, one provider's request fails and the other's
\* succeeds, the titled records of the provider that succeeded are in the
\* accumulated list once the query has been dealt with, and the run goes on.
C1_CrossProviderIndependence ==
    [][ (pc = "catch" /\ pc' # "catch" /\ OnlyOneFailed)
            => (pc' = "loop" /\ Titled(Survivor) \subseteq Ids(allBooks')) ]_vars

DistinctIds(books) ==
    \A i, j \in 1..Len(books) : i # j => books[i].id # books[j].id

\* the inner loop has gone through the whole batch of the query
BatchMerged == pc = "merge" /\ bi > Len(batch)

\* C2: the accumulated list never holds two records with the same id, and
\* neither does the text written to the output file.
C2_NoDuplicateIds ==
    /\ DistinctIds(allBooks)
    /\ writes > 0 => DistinctIds(file.text)

\* a batch that repeats a titled record has been merged into a list of two records
C2_Witness ==
    /\ BatchMerged
    /\ Len(allBooks) >= 2
    /\ \E j, k \in 1..Len(batch) :
           j < k /\ batch[j].id = batch[k].id /\ batch[j].title # ""

\* C3: no record of the accumulated list and no record of the written text
\* has the empty string as its title.
C3_TitleFilter ==
    /\ \A i \in 1..Len(allBooks) : allBooks[i].title # ""
    /\ writes > 0 => \A i \in 1..Len(file.text) : file.text[i].title # ""

\* a batch with an untitled record of each provider has been merged, and the
\* list is not empty
C3_Witness ==
    /\ BatchMerged
    /\ Len(allBooks) >= 1
    /\ \A p \in Providers :
           \E j \in 1..Len(batch) : batch[j].source = p /\ batch[j].title = ""

\* C4: when the loop handles a titled record, the list afterwards holds
\* exactly one record with its id; if the list already held a record with
\* that id the list is unchanged (the first record stays, field by field),
\* otherwise the record is appended as it arrived.
C4_DedupFirstWins ==
    [][ (pc = "merge" /\ bi <= Len(batch) /\ bi' = bi + 1 /\ batch[bi].title # "")
            => /\ Cardinality({i \in 1..Len(allBooks') :
                                   allBooks'[i].id = batch[bi].id}) = 1
               /\ batch[bi].id \in Ids(allBooks) => allBooks' = allBooks
               /\ batch[bi].id \notin Ids(allBooks)
                      => allBooks' = Append(allBooks, batch[bi]) ]_vars

\* a record with description "X" has been handled after a record of the same id
\* with description "", and the list holds the one with description ""
C4_Witness ==
    /\ pc = "merge"
    /\ bi > 1
    /\ batch[bi - 1].description = "X"
    /\ \E i \in 1..Len(allBooks) :
           allBooks[i].id = batch[bi - 1].id /\ allBooks[i].description = ""

\* C6: a query one of whose requests fails changes neither the accumulated
\* list nor the set of seen ids; the loop goes on with the next query, and the
\* write after the last query stores the records the other queries gave.
C6_LocalRecovery ==
    [][ /\ (pc = "await" /\ (olRes'.tag = "rejected" \/ gbRes'.tag = "rejected"))
               => (pc' = "catch" /\ allBooks' = allBooks /\ seenIds' = seenIds)
        /\ pc = "catch"
               => /\ allBooks' = allBooks
                  /\ seenIds' = seenIds
                  /\ pc' = "catch" \/ (pc' = "loop" /\ qi' = qi + 1)
        /\ pc' = "resolved"
               => (Len(log) = NumQueries /\ file' = Complete(Stringify(allBooks))) ]_vars

\* the file has been written with a record although a query failed
C6_Witness ==
    /\ pc = "resolved"
    /\ \E k \in 1..Len(log) : log[k] = "error"
    /\ file.kind = "complete"
    /\ Len(file.text) >= 1

\* C7: every request in flight belongs to the query the loop is at, and the
\* records of a query are merged only when none of its requests is in flight.
C7_BothSettledBarrier ==
    /\ \A r \in inflight : r[1] = qi
    /\ pc = "merge" => inflight = {}

\* C9: the file is written at most once in a run, after the last query, with
\* the whole list; a run that failed fatally left the file as it found it.
C9_NoPartialOutput ==
    /\ writes <= 1
    /\ writes = 1 => (qi > NumQueries /\ Len(log) = NumQueries)
    /\ (writes = 1 /\ fatalErr = "none") => file = Complete(Stringify(allBooks))
    /\ fatalErr # "none" => file = file0

\* C10: a run without filesystem failure ends with exit status 0, whatever the
\* providers did; a failure of mkdirSync or writeFileSync reaches the top-level
\* handler and the run ends with exit status 1.
C10_ExitStatus ==
    /\ (pc = "exited" /\ fatalErr = "none") => (exitCode = 0 /\ writes = 1 /\ dirExists)
    /\ (pc = "exited" /\ exitCode = 0) => fatalErr = "none"
    /\ fatalErr # "none" => (pc \in {"fatal", "exited"} /\ (pc = "exited" => exitCode = 1))
    /\ pc = "fatal" => (fatalErr # "none" /\ ENABLED MainCatch)
    /\ (pc = "resolved" /\ inflight = {}) => ENABLED ExitOk

\* the process has ended with status 0 after a query failed
C10_Witness ==
    /\ pc = "exited"
    /\ exitCode = 0
    /\ \E k \in 1..Len(log) : log[k] = "error"

(***************************************************************************)
(* Properties of the normalizer.                                           *)
(***************************************************************************)
Present(x) == ~Nullish(x)

NonEmpty(x) == Present(x) /\ x.v # ""

\* the chain of the id: key, edition key, first ISBN, title
IdChain(doc) == << doc.key, doc.cover_edition_key, FirstOf(doc.isbn), doc.title >>

\* C5 as stated: the id of an OpenLibrary record is "openlibrary:" followed by
\* the first non-empty value of the chain key, edition key, first ISBN, title.
C5_FirstNonEmptyWins ==
    (Normalized /\ IsOLDoc(nDoc)) =>
        \A n \in 1..4 :
            (NonEmpty(IdChain(nDoc)[n]) /\ \A m \in 1..(n - 1) : ~NonEmpty(IdChain(nDoc)[m]))
                => nRec.id = "openlibrary:" \o IdChain(nDoc)[n].v

\* C5 amended: the id of an OpenLibrary record is "openlibrary:" followed by
\* the first value of the chain that is present, that is neither undefined nor
\* null, an empty string included; with no value present it is
\* "openlibrary:undefined", or "openlibrary:null" when the title is null.
C5_IdentityKeyFallback ==
    (Normalized /\ IsOLDoc(nDoc)) =>
        /\ Present(nDoc.key) => nRec.id = "openlibrary:" \o nDoc.key.v
        /\ (~Present(nDoc.key) /\ Present(nDoc.cover_edition_key))
               => nRec.id = "openlibrary:" \o nDoc.cover_edition_key.v
        /\ (~Present(nDoc.key) /\ ~Present(nDoc.cover_edition_key)
              /\ Present(nDoc.isbn) /\ Len(nDoc.isbn.items) > 0)
               => nRec.id = "openlibrary:" \o nDoc.isbn.items[1]
        /\ (~Present(nDoc.key) /\ ~Present(nDoc.cover_edition_key)
              /\ (~Present(nDoc.isbn) \/ Len(nDoc.isbn.items) = 0))
               => nRec.id = CASE nDoc.title.t = "undefined" -> "openlibrary:undefined"
                               [] nDoc.title.t = "null" -> "openlibrary:null"
                               [] OTHER -> "openlibrary:" \o nDoc.title.v

\* a record without key or edition key, whose first ISBN is the empty string
\* and which has a title, normalized: its id ends with the empty ISBN
C5_Witness ==
    /\ Normalized
    /\ IsOLDoc(nDoc)
    /\ ~Present(nDoc.key)
    /\ ~Present(nDoc.cover_edition_key)
    /\ nDoc.isbn = Arr(<<"">>)
    /\ nDoc.title = Str("T")
    /\ nRec.id = "openlibrary:"

(***************************************************************************)
(* Properties of two runs in a row.                                        *)
(***************************************************************************)
\* C8: a run that ends without fatal error leaves in the file the text of its
\* own list and nothing of what the file held before; when the run before it
\* got the same responses and ended without fatal error too, the file holds
\* what that run left, in whatever order the requests of a query completed.
C8_DeterministicRerun ==
    (pc \in {"resolved", "exited"} /\ fatalErr = "none") =>
        /\ file = Complete(Stringify(allBooks))
        /\ (prev.ran /\ prev.exitCode = 0) => file = prev.file

\* the second run has ended with status 0 after a first run that ended with
\* status 0 and left a file of two records
C8_Witness ==
    /\ pc = "exited"
    /\ exitCode = 0
    /\ prev.ran
    /\ prev.exitCode = 0
    /\ file0 = prev.file
    /\ Len(file0.text) >= 2
    /\ run = 2

(***************************************************************************)
(* Properties of the accumulated list against the records that arrived.    *)
(***************************************************************************)
\* the records query q hands to the inner loop: those of both responses when
\* both requests succeeded, OpenLibrary's first
QueryArrivals(q) ==
    LET ol == Ingest("openlibrary", script[<<q, "openlibrary">>])
        gb == Ingest("google_books", script[<<q, "google_books">>])
    IN  IF ol.tag = "fulfilled" /\ gb.tag = "fulfilled" THEN ol.books \o gb.books ELSE <<>>

RECURSIVE Arrived(_)
\* the records of the queries 1..n, one query after the other
Arrived(n) == IF n = 0 THEN <<>> ELSE Arrived(n - 1) \o QueryArrivals(n)

\* the positions of c holding a titled record whose id no titled record
\* before it has
FirstTitledAt(c) ==
    { k \in 1..Len(c) :
          /\ c[k].title # ""
          /\ \A j \in 1..(k - 1) : c[j].title # "" => c[j].id # c[k].id }

\* the subsequence of c at the positions K
SubsequenceAt(c, K) ==
    [p \in 1..Cardinality(K) |->
        c[CHOOSE k \in K : Cardinality({j \in K : j <= k}) = p]]

SameTitleAndAuthors(a, b) == a.title = b.title /\ a.authors = b.authors

\* C12: when the loop handles a titled record, the record is appended whenever
\* no accepted record has its id, whatever the titles and authors of the
\* accepted records; it is left out only when an accepted record has its id.
C12_NoCrossFieldDedup ==
    [][ (pc = "merge" /\ bi' = bi + 1 /\ batch[bi].title # "")
            => /\ batch[bi].id \notin Ids(allBooks)
                      => allBooks' = Append(allBooks, batch[bi])
               /\ allBooks' = allBooks => batch[bi].id \in Ids(allBooks) ]_vars

\* the list holds a record of each provider with the same title and authors
C12_Witness ==
    \E i, j \in 1..Len(allBooks) :
        /\ i < j
        /\ SameTitleAndAuthors(allBooks[i], allBooks[j])
        /\ allBooks[i].source # allBooks[j].source
        /\ allBooks[i].id # allBooks[j].id

\* C13 as stated: the written file never holds two records with the same
\* title and the same authors.
C13_TitleAuthorDedup ==
    writes > 0 =>
        \A i, j \in 1..Len(file.text) :
            i # j => ~SameTitleAndAuthors(file.text[i], file.text[j])

\* C13: the script deduplicates by id: the written file holds one record for
\* each id of a titled record that arrived, no more and no fewer, so records
\* with the same title and authors and different ids are all in the file.
C13_IdDedup ==
    pc = "resolved" =>
        /\ Ids(file.text) = Titled(Arrived(NumQueries))
        /\ Len(file.text) = Cardinality(Titled(Arrived(NumQueries)))

\* the written file holds two records with the same title and authors
C13_Witness ==
    /\ pc = "resolved"
    /\ \E i, j \in 1..Len(file.text) :
           i # j /\ SameTitleAndAuthors(file.text[i], file.text[j])

(***************************************************************************)
(* Properties of the normalizer on records that lack fields.               *)
(***************************************************************************)
CatalogRecordFields ==
    {"id", "source", "title", "authors", "description", "categories", "identifiers",
     "publishedYear"}

\* the object the normalizer reads title, authors, ... from
FieldsOf(doc) ==
    IF IsOLDoc(doc)
    THEN [title |-> doc.title, authors |-> doc.author_name, categories |-> doc.subject,
          description |-> UNDEF, published |-> doc.first_publish_year]
    ELSE IF Nullish(doc.volumeInfo)
    THEN [title |-> UNDEF, authors |-> UNDEF, categories |-> UNDEF,
          description |-> UNDEF, published |-> UNDEF]
    ELSE [title |-> doc.volumeInfo.title, authors |-> doc.volumeInfo.authors,
          categories |-> doc.volumeInfo.categories,
          description |-> doc.volumeInfo.description,
          published |-> doc.volumeInfo.publishedDate]

\* a response of the record's provider carrying the record and then a whole one
ResponseWith(doc) ==
    [kind |-> "ok", list |-> Arr(<<doc, IF IsOLDoc(doc) THEN olDune ELSE gDune>>)]

IngestOf(doc, resp) ==
    IF IsOLDoc(doc) THEN ingestFromOpenLibrary(resp) ELSE ingestFromGoogleBooks(resp)

\* C14: the normalizer never throws for a provider record, whatever fields it
\* lacks; its result has the fields of a CatalogRecord, with title "",
\* authors [], categories [], description "" and publishedYear null for the
\* fields the record lacks; a response carrying the record is ingested whole,
\* the record after it included.
C14_MalformedRecordDefaults ==
    /\ nRec # TypeError
    /\ Normalized =>
           /\ DOMAIN nRec = CatalogRecordFields
           /\ Nullish(FieldsOf(nDoc).title) => nRec.title = ""
           /\ Nullish(FieldsOf(nDoc).authors) => nRec.authors = <<>>
           /\ Nullish(FieldsOf(nDoc).categories) => nRec.categories = <<>>
           /\ Nullish(FieldsOf(nDoc).description) => nRec.description = ""
           /\ Nullish(FieldsOf(nDoc).published) => nRec.publishedYear = NULL
           /\ IngestOf(nDoc, ResponseWith(nDoc)).tag = "fulfilled"
           /\ Len(IngestOf(nDoc, ResponseWith(nDoc)).books) = 2
           /\ IngestOf(nDoc, ResponseWith(nDoc)).books[1] = nRec

\* a Google Books item without volumeInfo and without id has been normalized
C14_Witness ==
    /\ Normalized
    /\ IsGoogleItem(nDoc)
    /\ Nullish(nDoc.volumeInfo)
    /\ Nullish(nDoc.id)
    /\ nRec.title = ""
    /\ nRec.publishedYear = NULL

(***************************************************************************)
(* Properties of the sizes.                                                *)
(***************************************************************************)
\* the records of provider p in a list
FromProvider(books, p) == { i \in 1..Len(books) : books[i].source = p }

\* C15: the page size asked of each provider is at most 20; each ingest
\* promise carries at most LIMIT_PER_QUERY_PER_SOURCE records, and so does
\* each provider's part of the batch handed to the loop, however many records
\* the response carries; the accumulated list and the written text never hold
\* more than NumQueries * 2 * LIMIT_PER_QUERY_PER_SOURCE records.
C15_PerProviderCap ==
    /\ \A p \in Providers : RequestedPageSize(p) <= ProviderPageMax
    /\ Len(olRes.books) <= LIMIT_PER_QUERY_PER_SOURCE
    /\ Len(gbRes.books) <= LIMIT_PER_QUERY_PER_SOURCE
    /\ \A p \in Providers :
           Cardinality(FromProvider(batch, p)) <= LIMIT_PER_QUERY_PER_SOURCE
    /\ Len(allBooks) <= NumQueries * 2 * LIMIT_PER_QUERY_PER_SOURCE
    /\ Len(file.text) <= NumQueries * 2 * LIMIT_PER_QUERY_PER_SOURCE

\* every response of the run carried one record more than asked for, and the
\* written file holds as many records as the cap allows
C15_Witness ==
    /\ pc = "resolved"
    /\ \A r \in Requests :
           /\ script[r].kind = "ok"
           /\ Len(script[r].list.items) > RequestedPageSize(r[2])
    /\ Len(file.text) = NumQueries * 2 * LIMIT_PER_QUERY_PER_SOURCE

(***************************************************************************)
(* Properties of the provenance fields.                                    *)
(***************************************************************************)
\* the text an id of a record of the source starts with
ProviderTag(source) == IF source = "openlibrary" THEN "openlibrary:" ELSE "google:"

StartsWithTag(id, tag) == Len(id) >= Len(tag) /\ SubSeq(id, 1, Len(tag)) = tag

\* one source, and an id under the tag of that source and of no other
WellTagged(book) ==
    /\ book.source \in Providers
    /\ \A p \in Providers : StartsWithTag(book.id, ProviderTag(p)) <=> p = book.source

AllWellTagged(books) == \A i \in 1..Len(books) : WellTagged(books[i])

\* C16: every record handed to the loop, accumulated or written has one
\* source, openlibrary or google_books, and an id that starts with the tag of
\* that source ("openlibrary:" or "google:") and not with the other tag; the
\* ids the loop has seen are those of the accumulated records, so a record
\* whose id has been seen has the source of the accumulated record with that
\* id: no record is left out as a duplicate of a record of the other provider.
C16_Provenance ==
    /\ AllWellTagged(batch)
    /\ AllWellTagged(allBooks)
    /\ AllWellTagged(file.text)
    /\ seenIds = Ids(allBooks)
    /\ \A i \in 1..Len(allBooks) : \A j \in 1..Len(batch) :
           allBooks[i].id = batch[j].id => allBooks[i].source = batch[j].source

\* the loop has gone through a batch in which a Google Books record repeats
\* an id, and the list holds a record of each provider
C16_Witness ==
    /\ BatchMerged
    /\ \A p \in Providers : FromProvider(allBooks, p) # {}
    /\ \E j, k \in FromProvider(batch, "google_books") :
           j < k /\ batch[j].id = batch[k].id /\ batch[k].title # ""

(***************************************************************************)
(* Properties of the accumulated list over the steps of a run.             *)
(***************************************************************************)
\* C17: no step of a run shortens the accumulated list or changes the record
\* at an index the list already has, and the write puts at every index of the
\* text the JSON of the record the list has at that index.
C17_AppendOnly ==
    [][ /\ Len(allBooks') >= Len(allBooks)
        /\ \A i \in 1..Len(allBooks) : allBooks'[i] = allBooks[i]
        /\ (pc # "resolved" /\ pc' = "resolved")
               => /\ Len(file'.text) = Len(allBooks)
                  /\ \A i \in 1..Len(allBooks) : file'.text[i] = JsonBook(allBooks[i]) ]_vars

\* the file is written after every query was merged; the list holds two records
C17_Witness ==
    /\ pc = "resolved"
    /\ Len(allBooks) = 2
    /\ log = [q \in Queries |-> "counts"]
    /\ file.text = Stringify(allBooks)

(***************************************************************************)
(* Properties of the data directory.                                       *)
(***************************************************************************)
\* C18: writeFileSync is only called while the data directory exists; the
\* call of mkdirSync returns normally whenever the directory exists, also
\* when it came to exist after existsSync answered false; and when existsSync
\* answers true the run goes on without a call of mkdirSync.
C18_SinkDirectory ==
    [][ /\ writes' > writes => dirExists
        /\ (pc = "mkdir" /\ dirExists /\ pc' # "mkdir")
               => (pc' = "loop" /\ dirExists' /\ fatalErr' = "none")
        /\ (pc = "start" /\ dirExists /\ pc' # "start") => pc' = "loop" ]_vars

\* existsSync answered false, another process has created the directory since,
\* and the call of mkdirSync is next: it can return and cannot throw
C18_Witness ==
    /\ pc = "mkdir"
    /\ dirExists
    /\ ENABLED MkdirOk
    /\ ~ENABLED MkdirFail

(***************************************************************************)
(* Properties of the database schema.                                      *)
(***************************************************************************)
\* the owner of the conversation a message belongs to, in database d
OwnsConversationOf(uid, message, d) ==
    \E c \in d["conversations"] : c.id = message.conversation_id /\ c.user_id = uid

\* the statements the schema has no policy for
WithoutPolicy ==
    { << "wishlist_entries", "UPDATE" >>, << "conversations", "UPDATE" >>,
      << "conversations", "DELETE" >>, << "messages", "UPDATE" >>,
      << "messages", "DELETE" >> }

\* C19: whatever statement a client runs, the rows of library_entries,
\* wishlist_entries and conversations it adds, removes or replaces, and the
\* rows a SELECT returns to it, have the client's auth.uid() as user_id; a
\* message it adds or reads belongs to a conversation of that user, and no
\* message is removed or replaced; a statement without a policy changes and
\* returns nothing.
C19_RowLevelSecurity ==
    [][ /\ \A t \in OwnedTables :
               \A r \in (db[t] \ db'[t]) \cup (db'[t] \ db[t]) : r.user_id = stmt'.uid
        /\ db["messages"] \subseteq db'["messages"]
        /\ \A m \in db'["messages"] \ db["messages"] : OwnsConversationOf(stmt'.uid, m, db)
        /\ \A r \in visible' :
               IF stmt'.table = "messages" THEN OwnsConversationOf(stmt'.uid, r, db)
               ELSE r.user_id = stmt'.uid
        /\ << stmt'.table, stmt'.cmd >> \in WithoutPolicy => (db' = db /\ visible' = {}) ]_vars

\* bob has read library_entries and got his entry and not alice's, while
\* alice has a conversation with a message
C19_Witness ==
    /\ stmt = Statement("bob", "SELECT", "library_entries", "ok")
    /\ visible # {}
    /\ \E r \in db["library_entries"] : r.user_id = "alice"
    /\ \E m \in db["messages"] : OwnsConversationOf("alice", m, db)

(***************************************************************************)
(* Properties of the chat page.                                            *)
(***************************************************************************)
\* the content of the assistant message after which there is no other
LatestAnswer(msgs) ==
    LET i == CHOOSE k \in 1..Len(msgs) :
                 /\ msgs[k].role = "assistant"
                 /\ \A j \in (k + 1)..Len(msgs) : msgs[j].role # "assistant"
    IN  msgs[i].content

\* the lines of a text that, trimmed, start with a marker, in their order
ItemLines(text) ==
    LET split == Split(text)
        lines == [i \in 1..Len(split) |-> Trim(split[i])]
        at == { i \in 1..Len(lines) : Len(lines[i]) > 0 /\ lines[i][1] \in {"-", Bullet} }
    IN  [p \in 1..Cardinality(at) |->
            lines[CHOOSE i \in at : Cardinality({j \in at : j <= i}) = p]]

\* title is the line without its first character and the white space after it
IsLineWithoutMarker(title, line) ==
    /\ \E n \in 1..Len(line) :
           /\ \A j \in 2..n : line[j] \in WhiteSpace
           /\ title = SubSeq(line, n + 1, Len(line))
    /\ Len(title) > 0 => title[1] \notin WhiteSpace

\* C20: the candidates are the first five (all, when there are fewer) of the
\* lines of the latest assistant message that, trimmed, start with "-" or
\* the bullet, in their order and each without that marker and the white
\* space after it; when the message has no such line there are no candidates.
C20_ChatSuggestions ==
    LET items == ItemLines(LatestAnswer(messages)) IN
    /\ Len(candidates) <= MaxCandidates
    /\ Len(candidates) = IF Len(items) < MaxCandidates THEN Len(items) ELSE MaxCandidates
    /\ \A k \in 1..Len(candidates) : IsLineWithoutMarker(candidates[k], items[k])

\* five candidates are shown for an answer of six list items, after which the
\* user has sent a message that is a list item itself
C20_Witness ==
    /\ Len(candidates) = MaxCandidates
    /\ Len(ItemLines(LatestAnswer(messages))) > MaxCandidates
    /\ messages[Len(messages)].role = "user"
    /\ IsListItem(messages[Len(messages)].content)

(***************************************************************************)
(* The search page: handleSearch and the calls of searchBooks.  A call      *)
(* awaits the Google Books request, then the OpenLibrary request; what      *)
(* follows the second await runs in the step that settles it.              *)
(***************************************************************************)
\* the script, the database, the chat page and the library stay as they start
InitSearchPage ==
    /\ InitScript
    /\ InitPagesIdle
    /\ InitLibrary
    /\ InitSearch

\* something calls searchBooks(query, limit) while no other call runs
Call(limit) ==
    /\ submits < MaxSearches
    /\ \A id \in 1..MaxSearches : calls[id].pc \in {"none", "done"}
    /\ submits' = submits + 1
    /\ calls' = [calls EXCEPT ![submits + 1] =
                     [NoCall EXCEPT !.pc = "google", !.limit = limit]]
    /\ UNCHANGED << search, found, db, stmt, visible, messages, candidates, isLoading, lastSend,
                    libVars, scriptVars >>

\* handleSearch: the form is submitted with the query typed
Submit(query) ==
    /\ submits < MaxSearches
    /\ submits' = submits + 1
    /\ IF trim(query) = ""
       THEN UNCHANGED << search, calls >>
       ELSE /\ search' = [results |-> <<>>, error |-> NULL, isLoading |-> TRUE]
            /\ calls' = [calls EXCEPT ![submits + 1] =
                             [NoCall EXCEPT !.pc = "google", !.limit = PageLimit,
                                            !.page = TRUE]]
    /\ UNCHANGED << found, db, stmt, visible, messages, candidates, isLoading, lastSend,
                    libVars, scriptVars >>

\* what handleSearch does with what searchBooks ends with
AfterSearch(page, outcome) ==
    IF outcome.ok
    THEN [page EXCEPT !.results = outcome.books, !.isLoading = FALSE]
    ELSE [page EXCEPT !.error = Str(outcome.message), !.isLoading = FALSE]

\* searchBooks without the first try block: a failure of the Google Books
\* request ends the call
SettleGoogleRethrow(id, resp) ==
    /\ calls[id].pc = "google"
    /\ IF resp.kind = "ok"
       THEN /\ calls' = [calls EXCEPT ![id].pc = "openlibrary", ![id].gResp = resp,
                                      ![id].google = GoogleBooks(resp)]
            /\ UNCHANGED << search, found >>
       ELSE /\ calls' = [calls EXCEPT ![id] = [NoCall EXCEPT !.pc = "done"]]
            /\ found' = [id |-> id, google |-> resp,
                         ol |-> [kind |-> "not sent", list |-> UNDEF],
                         limit |-> calls[id].limit, outcome |-> Thrown("fetch failed")]
            /\ search' = IF calls[id].page
                         THEN AfterSearch(search, Thrown("fetch failed"))
                         ELSE search
    /\ UNCHANGED << submits, db, stmt, visible, messages, candidates, isLoading, lastSend,
                    libVars, scriptVars >>

\* the Google Books request of a call settles; the call sends the
\* OpenLibrary request
SettleGoogle(id, resp) ==
    /\ calls[id].pc = "google"
    /\ calls' = [calls EXCEPT ![id].pc = "openlibrary", ![id].gResp = resp,
                              ![id].google = GoogleBooks(resp)]
    /\ UNCHANGED << search, found, submits, db, stmt, visible, messages, candidates, isLoading, lastSend,
                    libVars, scriptVars >>

\* the OpenLibrary request of a call settles; the call ends, and handleSearch,
\* when it awaits the call, sets the states of the page
SettleOpenLibrary(id, resp) ==
    /\ calls[id].pc = "openlibrary"
    /\ LET outcome == searchBooks(calls[id].google, OpenLibraryBooks(resp),
                                  calls[id].limit)
       IN  /\ found' = [id |-> id, google |-> calls[id].gResp, ol |-> resp,
                        limit |-> calls[id].limit, outcome |-> outcome]
           /\ search' = IF calls[id].page THEN AfterSearch(search, outcome) ELSE search
    /\ calls' = [calls EXCEPT ![id] = [NoCall EXCEPT !.pc = "done"]]
    /\ UNCHANGED << submits, db, stmt, visible, messages, candidates, isLoading, lastSend,
                    libVars, scriptVars >>

\* calls of searchBooks, one after the other, with any answers
NextSearchBooks ==
    \/ \E limit \in Limits : Call(limit)
    \/ \E id \in 1..MaxSearches : \E resp \in GoogleAnswers : SettleGoogle(id, resp)
    \/ \E id \in 1..MaxSearches : \E resp \in OpenLibraryAnswers :
           SettleOpenLibrary(id, resp)

SpecSearchBooks == InitSearchPage /\ [][NextSearchBooks]_vars

\* what is typed when the form is submitted: a query, and blanks
SearchQueries == { "dune ", "  " }

\* answers of the providers to the searches of the page: a failure, a
\* response without books, or a book
FewGoogleAnswers ==
    { [kind |-> "http_error", list |-> UNDEF],
      [kind |-> "ok", list |-> UNDEF],
      [kind |-> "ok", list |-> Arr(<< sgDune >>)] }

FewOpenLibraryAnswers ==
    { [kind |-> "network_error", list |-> UNDEF],
      [kind |-> "ok", list |-> Arr(<< solDune >>)],
      [kind |-> "ok", list |-> Arr(<< solEmma, solDune >>)] }

\* the search page: handleSearch is called with the form's query at any time,
\* and the requests of its calls of searchBooks settle in any order
NextSearch ==
    \/ \E query \in SearchQueries : Submit(query)
    \/ \E id \in 1..MaxSearches : \E resp \in FewGoogleAnswers : SettleGoogle(id, resp)
    \/ \E id \in 1..MaxSearches : \E resp \in FewOpenLibraryAnswers :
           SettleOpenLibrary(id, resp)

SpecSearch == InitSearchPage /\ [][NextSearch]_vars

(***************************************************************************)
(* The library and its stored copy.                                        *)
(***************************************************************************)
\* the effects have run and no render is due
Quiescent == effects = <<>> /\ ~stale

\* the stored value is the text of a JSON array
StoredArray(raw) == raw.t = "text" /\ raw.form = "json" /\ raw.value.t = "array"

\* the entries of the array the page found stored (none when it found no array)
StoredItems == IF StoredArray(storage0) THEN storage0.value.items ELSE <<>>

WithKey(lib, key) == { i \in 1..Len(lib) : KeyOf(lib[i]) = key }

\* C22: after adds from the chat, adds from the search and star clicks, from
\* an empty library on, every rating is an integer from 0 to 5, and a star
\* click sets a value from 1 to 5.
C22_StarRatingRange ==
    /\ \A i \in 1..Len(library) :
           /\ library[i].rating.t = "number"
           /\ library[i].rating.v \in 0..5
    /\ lastOp.op = "star" =>
           /\ lastOp.value.v \in 1..5
           /\ \A i \in WithKey(library, SearchKey(lastOp.book)) :
                  library[i].rating = lastOp.value

\* a book added from the search was rated 5 and one added from the chat is
\* not rated
C22_Witness ==
    /\ lastOp.op = "star"
    /\ \E i, j \in 1..Len(library) :
           /\ library[i].rating = Num(5)
           /\ library[i].source = Str("Google Books")
           /\ library[j].rating = Num(0)
           /\ library[j].source = NULL

(***************************************************************************)
(* The search of the two catalogs.                                         *)
(***************************************************************************)
\* the title of a book in lower case
LowerTitle(b) == toLowerCase(IF Truthy(b.title) THEN b.title.v ELSE "")

\* the authors of a book, joined with commas, in lower case
LowerAuthors(b) ==
    toLowerCase(IF Nullish(b.authors) THEN "" ELSE JoinWith(b.authors.items, ","))

SameTitleAuthors(a, b) ==
    LowerTitle(a) = LowerTitle(b) /\ LowerAuthors(a) = LowerAuthors(b)

\* the books of the two answers of the last call, Google Books first
FoundBooks == GoogleBooks(found.google) \o OpenLibraryBooks(found.ol)

\* the places of books where no earlier book has the same title and authors
FirstOccurrences(books) ==
    { i \in 1..Len(books) : \A j \in 1..(i - 1) : ~SameTitleAuthors(books[j], books[i]) }

\* the places of the last call's books with the title and authors of b
PlacesOf(b) == { p \in 1..Len(FoundBooks) : SameTitleAuthors(FoundBooks[p], b) }

\* the least member of a set of numbers, 0 for the empty set
Least(S) == IF S = {} THEN 0 ELSE CHOOSE i \in S : \A j \in S : i <= j

\* C23: the list searchBooks returns holds no two items with the same
\* lower-cased title and lower-cased comma-joined authors; its items are the
\* first occurrences, among the Google Books items followed by the OpenLibrary
\* items, of their title and authors, in that order, and there are at most
\* limit of them.
C23_LiveSearchDedup ==
    (found.id # 0 /\ found.outcome.ok) =>
        LET books == found.outcome.books IN
        /\ \A i, j \in 1..Len(books) :
               i # j => ~SameTitleAuthors(books[i], books[j])
        /\ Len(books) <= found.limit
        /\ \A k \in 1..Len(books) :
               /\ PlacesOf(books[k]) # {}
               /\ books[k] = FoundBooks[Least(PlacesOf(books[k]))]
        /\ \A k, l \in 1..Len(books) :
               k < l => Least(PlacesOf(books[k])) < Least(PlacesOf(books[l]))

\* a call with limit 2 got the same book in other letters twice from Google
\* Books and once more from OpenLibrary, and two more books that the limit
\* cut down to one
C23_Witness ==
    /\ found.id # 0
    /\ found.outcome.ok
    /\ found.limit = 2
    /\ Len(found.outcome.books) = 2
    /\ Len(GoogleBooks(found.google)) = 3
    /\ Len(OpenLibraryBooks(found.ol)) = 2
    /\ Cardinality(FirstOccurrences(FoundBooks)) = 3

(***************************************************************************)
(* Termination of the ingestion run                                        *)
(***************************************************************************)
\* the run has ended normally after one turn of the loop per query and one write
RanToCompletion ==
    /\ pc = "exited"
    /\ exitCode = 0
    /\ qi = NumQueries + 1
    /\ Len(log) = NumQueries
    /\ writes = 1
    /\ inflight = {}

\* the queries are taken one after the other, each once: the requests of query
\* qi are sent when qi - 1 queries have been logged, and qi moves on by one
InOrderOnce ==
    /\ qi' \in {qi, qi + 1}
    /\ Len(log') \in {qi' - 1, qi'}
    /\ (inflight' \ inflight) # {}
          => /\ inflight' \ inflight = {<<qi, "openlibrary">>, <<qi, "google_books">>}
             /\ Len(log) = qi - 1
             /\ qi' = qi
    /\ writes' # writes => qi = NumQueries + 1 /\ writes = 0

\* while the process runs, a request leaves the requests in flight only by
\* settling, one at a time, and main() leaves its await only with a settlement
NoCancel ==
    pc' # "exited"
      => /\ Cardinality(inflight \ inflight') <= 1
         /\ (inflight \ inflight') # {} => pc' \in {pc, "merge", "catch"} /\ qi' = qi
         /\ (pc = "await" /\ pc' # "await") => (inflight \ inflight') # {}

\* C24: when every provider request settles and no filesystem operation fails,
\* the run ends, having gone through every query once and in order and having
\* written the output file once; nothing in the run cancels a request or makes
\* it time out, so main() stays at its await until a request of the query settles.
C24_Termination ==
    /\ <>(fatalErr # "none" \/ RanToCompletion)
    /\ [][InOrderOnce]_vars
    /\ [][NoCancel]_vars

\* a run has ended normally although a query failed
C24_Witness ==
    /\ RanToCompletion
    /\ fatalErr = "none"
    /\ \E i \in 1..Len(log) : log[i] = "error"

(***************************************************************************)
(* The library as a keyed list                                             *)
(***************************************************************************)
\* no two entries of a library have the same key
UniqueKeys(lib) ==
    \A i, j \in 1..Len(lib) : KeyOf(lib[i]) = KeyOf(lib[j]) => i = j

\* every entry of a library has a title that is trimmed and not empty
TrimmedTitles(lib) ==
    \A i \in 1..Len(lib) :
        /\ lib[i].title.t = "string"
        /\ lib[i].title.v # ""
        /\ trim(lib[i].title.v) = lib[i].title.v

\* the step is a call of handleAddBook
IsAdd == ops' # ops /\ lastOp'.op = "add"

\* the step is a call of handleUpdateRating, from a star or from elsewhere
IsRate == ops' # ops /\ lastOp'.op \in {"rate", "star"}

\* C25: from an empty library on, after any calls of handleAddBook and
\* handleUpdateRating no two entries have the same key and every entry has a
\* non-empty, trimmed title; handleAddBook called with no book, no title or a
\* blank title leaves the library as it is.
C25_KeyUniqueness ==
    /\ [](UniqueKeys(library) /\ TrimmedTitles(library))
    /\ [][IsAdd /\ Untitled(lastOp'.book) => library' = library]_vars

\* two books are in the library and the last call added a book without title
C25_Witness ==
    /\ ops = MaxOps
    /\ Len(library) = 2
    /\ lastOp.op = "add"
    /\ Untitled(lastOp.book)

\* the key handleAddBook looks a book up under
AddKey(book) == buildKey(book.source, book.rawId, Str(trim(book.title.v)))

\* the record of a book holds nothing but what the book brings: its own rating
\* or 0, its own comment or the empty text
BuiltFrom(item, book) ==
    /\ item = Payload(book, trim(book.title.v))
    /\ item.rating = (IF book.rating.t = "number" THEN book.rating ELSE Num(0))
    /\ Nullish(book.comment) => item.comment = Str("")

\* C26: handleAddBook with a titled book replaces the entry that has the
\* book's key, at its index, by a record built from the book alone (rating 0
\* and comment "" when the book has none), length and other entries as they
\* were; when no entry has the key it appends that record and leaves the
\* entries as they were.
C26_UpsertByKey ==
    [][IsAdd /\ ~Untitled(lastOp'.book) =>
         LET book == lastOp'.book
             at == WithKey(library, AddKey(book))
         IN  IF at # {}
             THEN /\ Len(library') = Len(library)
                  /\ \E i \in at :
                         /\ BuiltFrom(library'[i], book)
                         /\ \A j \in 1..Len(library) :
                                j # i => library'[j] = library[j]
             ELSE /\ Len(library') = Len(library) + 1
                  /\ BuiltFrom(library'[Len(library')], book)
                  /\ SubSeq(library', 1, Len(library)) = library
    ]_vars

\* the one book of the library was stored with rating 3 and was then added
\* again from the chat: its rating is 0
C26_Witness ==
    /\ lastOp.op = "add"
    /\ lastOp.book = ChatBook(" Dune ")
    /\ Len(library) = 1
    /\ library[1].rating = Num(0)
    /\ storage.t = "text"
    /\ Len(storage.value.items) = 1
    /\ "rating" \in DOMAIN storage.value.items[1]
    /\ storage.value.items[1].rating = Num(3)

\* the key handleUpdateRating looks for
TargetKey(bookInfo) == buildKey(bookInfo.source, bookInfo.rawId, bookInfo.title)

\* two entries differ in their rating at most
SameButRating(a, b) ==
    /\ DOMAIN a = DOMAIN b
    /\ \A k \in DOMAIN a \ {"rating"} : a[k] = b[k]

\* C27: handleUpdateRating sets the rating of the entries that have the
\* target key and changes nothing else: length, order and the other fields
\* stay, entries with another key keep their rating, and when no entry has
\* the key the library stays as it is; after a click on star v of entry e of
\* the library page, e has rating v.
C27_RatingUpdate ==
    [][IsRate =>
         LET key == TargetKey(lastOp'.book)
             value == lastOp'.value
         IN  /\ Len(library') = Len(library)
             /\ \A i \in 1..Len(library) :
                    /\ SameButRating(library'[i], library[i])
                    /\ library'[i].rating =
                          (IF KeyOf(library[i]) = key THEN value
                           ELSE library[i].rating)
             /\ WithKey(library, key) = {} => library' = library
             /\ lastOp'.op = "star" =>
                    /\ \E i \in 1..Len(library) : WithRawId(library[i]) = lastOp'.book
                    /\ \A i \in 1..Len(library) :
                           WithRawId(library[i]) = lastOp'.book
                              => library'[i].rating = value
    ]_vars

\* a star of one of two books was clicked: that book has the star's value,
\* the other has not
C27_Witness ==
    /\ lastOp.op = "star"
    /\ Len(library) = 2
    /\ \E i, j \in 1..2 :
           /\ WithRawId(library[i]) = [lastOp.book EXCEPT !.rating = lastOp.value]
           /\ library[i].rating = lastOp.value
           /\ library[j].rating # lastOp.value

(***************************************************************************)
(* searchBooks and its two providers                                       *)
(***************************************************************************)
\* the request of a provider failed: fetch threw, or the status was not ok
RequestFailed(resp) == resp.kind \in {"network_error", "http_error"}

\* the books a call returns are those of one provider alone: each of its
\* books is returned, unless a book of the same title and authors before it
\* is, or the limit is reached
ReturnsAllOf(books) ==
    LET out == found.outcome.books IN
    /\ books # <<>> => found.outcome.ok
    /\ \A k \in 1..Len(out) : \E i \in 1..Len(books) : out[k] = books[i]
    /\ \A i \in 1..Len(books) :
           \/ \E k \in 1..Len(out) : out[k] = books[i]
           \/ \E j \in 1..(i - 1) : SameTitleAuthors(books[j], books[i])
           \/ Len(out) = found.limit

\* C28: whatever the Google Books request ends with, searchBooks sends the
\* OpenLibrary request next, and when the Google Books request failed the
\* call returns the OpenLibrary results; when the OpenLibrary request failed
\* it returns the Google Books results; it throws, with the message "No
\* results found (Google+OpenLibrary).", exactly when the merged list is empty.
C28_ProviderIndependence ==
    /\ [][\A id \in 1..MaxSearches :
             (calls[id].pc = "google" /\ calls'[id].pc # "google")
                => calls'[id].pc = "openlibrary"]_vars
    /\ [](found.id # 0 =>
             /\ RequestFailed(found.google)
                   => ReturnsAllOf(OpenLibraryBooks(found.ol))
             /\ RequestFailed(found.ol)
                   => ReturnsAllOf(GoogleBooks(found.google))
             /\ ~found.outcome.ok <=> FoundBooks = <<>>
             /\ ~found.outcome.ok
                   => found.outcome.message = "No results found (Google+OpenLibrary).")

\* the Google Books request failed and the call returned the two books of
\* OpenLibrary
C28_Witness ==
    /\ found.id # 0
    /\ RequestFailed(found.google)
    /\ found.ol.kind = "ok"
    /\ found.outcome.ok
    /\ Len(found.outcome.books) = 2
    /\ found.outcome.books[1] = normalizeOpenLibrary(solEmma)

(***************************************************************************)
(* The chat: sends and answers                                             *)
(***************************************************************************)
\* the texts of an assistant message: a reply of the server, the text for a
\* response without reply, and the apology of the catch block
AnswerTexts ==
    (ShortReplies \ { <<>> }) \cup
    { Chars("I couldn't parse a reply from the server."),
      Chars("Sorry, I had a server issue. Please try again later.") }

\* the welcome message, then user and assistant messages in turn
Alternating(msgs) ==
    /\ msgs[1] = Welcome
    /\ \A i \in 2..Len(msgs) :
           msgs[i].role = (IF i % 2 = 0 THEN "user" ELSE "assistant")

\* a step of sendMessage that went on to the request
AcceptedSend ==
    /\ ~isLoading
    /\ isLoading'
    /\ lastSend'.accepted
    /\ Trim(lastSend'.input) # <<>>
    /\ messages' = Append(messages, Message("user", Trim(lastSend'.input)))

\* a step in which the request settles
Settled ==
    /\ isLoading
    /\ ~isLoading'
    /\ \E text \in AnswerTexts : messages' = Append(messages, Message("assistant", text))

\* a step changes the messages or isLoading only as a send that went on or as
\* a request that settles; a send that was turned down changes neither
PairedStep ==
    /\ (messages' # messages \/ isLoading' # isLoading) => (AcceptedSend \/ Settled)
    /\ (lastSend' # lastSend /\ ~lastSend'.accepted)
          => /\ Trim(lastSend'.input) = <<>> \/ isLoading
             /\ messages' = messages
             /\ isLoading' = isLoading
    /\ SubSeq(messages', 1, Len(messages)) = messages

\* C29: sendMessage goes on only with an input that is not blank and with no
\* request in flight, and then appends one user message; the request that
\* settles appends one assistant message (reply, fallback or apology) and
\* sets isLoading to false; nothing else changes the messages, none is ever
\* removed, and whenever no request is in flight the list is the welcome
\* message followed by user and assistant messages in turn.
C29_RequestResponsePairing ==
    /\ [][PairedStep]_vars
    /\ [](~isLoading => Alternating(messages) /\ Len(messages) % 2 = 1)
    /\ [](isLoading => Alternating(messages) /\ Len(messages) % 2 = 0)

\* the first send was answered with the apology, the second is in flight, and
\* a third, with an input that is not blank, was turned down
C29_Witness ==
    /\ isLoading
    /\ Len(messages) = 4
    /\ messages[3].content = ServerIssue
    /\ messages[4].content = Chars("more")
    /\ ~lastSend.accepted
    /\ Trim(lastSend.input) # <<>>

(***************************************************************************)
(* The search page: what it shows when no search is running                *)
(***************************************************************************)
\* no call of searchBooks is waiting for a request
NoSearchInFlight == \A id \in 1..MaxSearches : calls[id].pc \in {"none", "done"}

\* a search with a query that is not blank was submitted
Searched == \E id \in 1..MaxSearches : calls[id].pc # "none"

====
